---------------------------- MODULE Spec2Model ----------------------------
(***************************************************************************)
(* A model of the PDF library-and-reader application.                      *)
(*                                                                         *)
(*   Spec        the application shell (Index), the Bookshelf and the      *)
(*               remote library store (pdfStorage): add / open / remove,   *)
(*               the initial library load, uploads, downloads, deletes.    *)
(*   SpecViewer  the page viewer (PdfViewer): document load, paging,       *)
(*               page-number input, scroll-driven page tracking.           *)
(*   SpecRender  the viewer's rendering: the render effect, renderPage /   *)
(*               renderAllPages, the ResizeObserver and the zoom buttons   *)
(*               over the browser's task and microtask queues.             *)
(*   SpecScroll  the scrolling viewer scrolled while its pages render.     *)
(*   SpecZoom    zoomIn / zoomOut / fit as functions of the scale.         *)
(*   SpecThumbnail  adding files under every behaviour of the thumbnail    *)
(*               generator's engine.                                       *)
(*   SpecFair, SpecViewerFair  Spec and SpecViewer with the awaits of      *)
(*               handleAdd, and the timer of the load, settling.           *)
(*   SpecLoad    one mount of the viewer whose file the parent replaces:   *)
(*               the loads, their blob URLs and the superseded loads.      *)
(*   SpecSession SpecRender with the menu button and the close.            *)
(*   SpecFit     fitting and zooming over container and page sizes.        *)
(*   SpecSettle  a viewer in fit mode whose container keeps its size.      *)
(*                                                                         *)
(* React state is modelled by its value after the updates queued in one    *)
(* synchronous run of a handler or continuation have been applied: every   *)
(* update of `books` but the initial load is a functional updater, and     *)
(* React commits the queued updaters in order before the next event.       *)
(* Optional values (File | null, string | null, "" paths) are sequences    *)
(* of length 0 or 1 so that they stay comparable.                          *)
(***************************************************************************)
EXTENDS Integers, Sequences, FiniteSets, TLC

\* ------------------------------------------------------------------ bounds
\* files the user selects or drops in one session, over all selections
MaxFiles == 2
\* handleRemove invocations in one session
MaxRemoves == 1
\* pages of a document the viewer is given
MaxPages == 3

\* ----------------------------------------------------------------- helpers
Null == <<>>
Some(x) == <<x>>

\* ------------------------------------------------------------------- files
PdfType == "application/pdf"

\* The File objects a user can pick: two PDFs and a PDF-named file whose
\* declared type is not exactly the PDF media type.
FileUniverse ==
    { [name |-> "a.pdf", type |-> PdfType, size |-> 1],
      [name |-> "b.pdf", type |-> PdfType, size |-> 2],
      [name |-> "c.pdf", type |-> "application/x-pdf", size |-> 3] }

RECURSIVE SeqsUpTo(_, _)
SeqsUpTo(S, n) ==
    IF n = 0 THEN {<<>>}
    ELSE LET shorter == SeqsUpTo(S, n - 1)
         IN shorter \cup {Append(s, x) : s \in shorter, x \in S}

\* A FileList handed to handleFiles: a non-empty selection.
Selections == SeqsUpTo(FileUniverse, MaxFiles) \ {<<>>}

VARIABLES
    \* ---- Index (application shell)
    books,              \* useState<PdfEntry[]>
    activeEntry,        \* useState<PdfEntry | null>
    openFile,           \* useState<File | null>
    isInitialLoading,   \* useState(true)
    adds,               \* the handleAdd invocations, each with its locals
    opening,            \* the handleOpen continuation awaiting a download
    \* ---- Bookshelf
    nPicked,            \* files handed to handleFiles so far
    nRemoves,           \* handleRemove invocations so far
    \* ---- remote library store
    bucket,             \* storage bucket "pdfs": the paths that hold a blob
    table,              \* table pdf_library, ordered by created_at
    deletes,            \* deletePdf calls in flight
    downloadLog,        \* storage paths downloadPdfAsFile was called with
    thumbnailEnv,       \* per file name: what the engine and the DOM do
                        \* when generateThumbnail runs on the file
    \* ---- PdfViewer
    variant,            \* "single": one page on one canvas (PdfViewer.tsx);
                        \* "scroll": all pages, continuous scroll
    mounted,            \* the component is mounted
    cancelled,          \* the load effect's `cancelled` flag
    pdfjsLib,           \* window.pdfjsLib is set (the engine has loaded)
    attempts,           \* load(): let attempts
    loadPc,             \* where load() stands
    numPages,           \* useState(0)
    currentPage,        \* useState(1)
    pageInputValue,     \* useState("1"): a sequence of characters
    isLoading,          \* useState(true)
    error,              \* useState<string | null>(null)
    scrollMode,         \* useState<ScrollMode>("vertical")
    isMenuOpen,         \* useState(false)
    scrollOffset,       \* the container's scroll position along the axis
    pageExtent,         \* the size of a page element along the scroll axis
    fileProp,           \* the `file` prop: the how-manieth blob the mounted
                        \* viewer has been given
    objectUrlRef,       \* objectUrlRef.current: the blob URL stored last,
                        \* named by the file it was created for
    blobUrls,           \* blob URLs created and not revoked
    superseded,         \* load() activations of earlier files that have
                        \* not returned yet
    \* ---- PdfViewer: zoom and rendering
    scale,              \* useState(1.0), in thousandths
    displayScale,       \* useState(1.0), in thousandths
    isFitMode,          \* useState(true)
    containerFit,       \* what computeFitScale yields for the container as it
                        \* is now, per scroll mode, in thousandths
    effectDeps,         \* the dependencies the render effect last ran with
    renderedScale,      \* the scale doRender passed to its most recent call
                        \* of renderPage / renderAllPages, if any
    consoleErrors,      \* the names of the exceptions the catch block of
                        \* renderPage / renderSinglePage has passed to
                        \* console.error
    pageLoaded,         \* pages whose getPage promise has resolved
    threads,            \* the async activations: render passes (doRender)
                        \* and resize callbacks, in the order they started
    waiters,            \* threads awaiting an unresolved getPage promise,
                        \* in the order they began to wait
    micro,              \* the microtask queue: threads whose awaited
                        \* promise has settled, in the order they continue
    running,            \* raster tasks started and neither completed nor
                        \* cancelled: <<thread, slot>>
    renderTaskRef,      \* renderTaskRef.current, per page slot
    canvas              \* per page slot: who sized it last, who drew on it

shellVars == <<books, activeEntry, openFile, isInitialLoading, adds, opening,
               nPicked, nRemoves, bucket, table, deletes, downloadLog,
               thumbnailEnv>>

viewerVars == <<variant, mounted, cancelled, pdfjsLib, attempts, loadPc,
                numPages, currentPage, pageInputValue, isLoading, error,
                scrollMode, isMenuOpen, scrollOffset, pageExtent,
                fileProp, objectUrlRef, blobUrls, superseded>>

\* the blob URL bookkeeping and the loads of replaced files
urlVars == <<fileProp, objectUrlRef, blobUrls, superseded>>

zoomVars == <<scale, displayScale, isFitMode>>

asyncVars == <<containerFit, effectDeps, renderedScale, consoleErrors,
               pageLoaded, threads, waiters, micro, running, renderTaskRef,
               canvas>>

renderVars == <<zoomVars, asyncVars>>

vars == <<shellVars, viewerVars, renderVars>>

\* ------------------------------------------------------- pdfStorage (store)
\* const path = `${id}/${file.name}`
StoragePath(id, name) == <<id, name>>

\* getPublicUrl: derived from the path, no network call
getPublicUrl(storagePath) == <<"public", storagePath>>

\* the row uploadPdf inserts and returns
StoredPdf(id, file, thumbnail) ==
    [id |-> id, name |-> file.name, size |-> file.size,
     storage_path |-> StoragePath(id, file.name), thumbnail |-> thumbnail]

\* ----------------------------------------------------------------- entries
\* handleAdd: tempEntry
TempEntry(tempId, file) ==
    [id |-> tempId, file |-> Some(file), storagePath |-> Null,
     thumbnail |-> Null, name |-> file.name, size |-> file.size,
     publicUrl |-> Null]

\* handleAdd: realEntry
RealEntry(stored, file) ==
    [id |-> stored.id, file |-> Some(file),
     storagePath |-> stored.storage_path, thumbnail |-> stored.thumbnail,
     name |-> stored.name, size |-> stored.size,
     publicUrl |-> getPublicUrl(stored.storage_path)]

\* initial load: a stored row becomes a cloud-only entry
CloudEntry(s) ==
    [id |-> s.id, file |-> Null, storagePath |-> s.storage_path,
     thumbnail |-> s.thumbnail, name |-> s.name, size |-> s.size,
     publicUrl |-> getPublicUrl(s.storage_path)]

\* mutant of isUploading: the card never counts as uploading, as in the
\* first revision of BookCard, which had no such test
isUploading_Never(entry) == FALSE

\* BookCard: const isUploading = !entry.storagePath
isUploading(entry) == entry.storagePath = Null

\* mutant of IsPdf: any media type that mentions pdf is let through
IsPdf_Loose(f) == f.type \in {"application/pdf", "application/x-pdf"}

\* Bookshelf.handleFiles: f.type === "application/pdf"
IsPdf(f) == f.type = PdfType

\* new File([data], name, { type: "application/pdf" })
DownloadedFile(entry) == [name |-> entry.name, type |-> PdfType, size |-> entry.size]

\* ---------------------------------------------- Bookshelf: generateThumbnail
\* What generateThumbnail meets when it runs on a file: the number of
\* 100 ms waits after which window.pdfjsLib is there (more than
\* ThumbnailAttempts: not within the wait), whether getDocument parses the
\* file, getPage(1) delivers the page, the canvas gives a 2d context, and
\* the raster of the page completes.
ThumbnailAttempts == 20
EngineArrivals == {0, 1, ThumbnailAttempts, ThumbnailAttempts + 1}
FileNames == {f.name : f \in FileUniverse}

ThumbnailEnvs ==
    [engineAfter : EngineArrivals, parses : BOOLEAN, hasPage : BOOLEAN,
     hasContext : BOOLEAN, renders : BOOLEAN]

\* the engine is there and renders the first page
GoodThumbnailEnv ==
    [engineAfter |-> 0, parses |-> TRUE, hasPage |-> TRUE,
     hasContext |-> TRUE, renders |-> TRUE]

\* the engine renders the first page of a.pdf and cannot parse any other
\* file
UsualThumbnailEnv ==
    [n \in FileNames |->
        IF n = "a.pdf" THEN GoodThumbnailEnv
        ELSE [GoodThumbnailEnv EXCEPT !.parses = FALSE]]

\* while (!window.pdfjsLib && attempts < 20) { await ...; attempts++ }:
\* the value of attempts when the loop is left
ThumbnailPolls(env) ==
    IF env.engineAfter < ThumbnailAttempts THEN env.engineAfter
    ELSE ThumbnailAttempts

Returned(value) == [raised |-> FALSE, value |-> value]
Thrown == [raised |-> TRUE, value |-> Null]

\* the statements inside the try block, in order
ThumbnailBody(env) ==
    IF env.engineAfter > ThumbnailPolls(env) THEN Returned(Null)
    ELSE IF ~env.parses THEN Thrown
    ELSE IF ~env.hasPage THEN Thrown
    ELSE IF ~env.hasContext THEN Returned(Null)
    ELSE IF ~env.renders THEN Thrown
    ELSE Returned(Some("data:image/jpeg"))

\* the call runs `const url = URL.createObjectURL(file)`: the wait has
\* ended with the engine there
ThumbnailCreatesUrl(env) == ~(env.engineAfter > ThumbnailPolls(env))

\* the call runs `URL.revokeObjectURL(url)`, the statement before the
\* final return: no await before it has thrown and the canvas gave a
\* context
ThumbnailRevokesUrl(env) ==
    /\ ThumbnailCreatesUrl(env)
    /\ env.parses /\ env.hasPage /\ env.hasContext /\ env.renders

\* the blob URLs generateThumbnail(file) has created and not revoked when
\* its promise settles, each named by the file it was created for
ThumbnailUrlsLeft(file) ==
    LET env == thumbnailEnv[file.name]
    IN  IF ThumbnailCreatesUrl(env) /\ ~ThumbnailRevokesUrl(env)
        THEN {file.name}
        ELSE {}

\* try { ... } without its catch
TryCatch_Rethrows(outcome) == outcome

\* try { ... } catch { return null; }
TryCatch(outcome) == IF outcome.raised THEN Returned(Null) ELSE outcome

\* generateThumbnail(file): resolves to a JPEG data URL of the first page or
\* to null (raised: the promise rejects)
generateThumbnail(file) == TryCatch(ThumbnailBody(thumbnailEnv[file.name]))

\* ------------------------------------------------------------ Index: views
\* mutant of View: Index without its `if (isInitialLoading)` branch
View_NoInitialScreen ==
    IF activeEntry # Null /\ openFile # Null THEN "viewer"
    ELSE IF activeEntry # Null /\ openFile = Null THEN "opening"
    ELSE "bookshelf"

\* the render branches of Index, in the order the code tests them
View ==
    IF isInitialLoading THEN "initial"
    ELSE IF activeEntry # Null /\ openFile # Null THEN "viewer"
    ELSE IF activeEntry # Null /\ openFile = Null THEN "opening"
    ELSE "bookshelf"

\* the library the backend holds when the session starts
InitialRow ==
    StoredPdf(<<"id", 0>>, [name |-> "s.pdf", type |-> PdfType, size |-> 5], Null)

InitShell ==
    /\ books = <<>>
    /\ activeEntry = Null
    /\ openFile = Null
    /\ isInitialLoading = TRUE
    /\ adds = <<>>
    /\ opening = Null
    /\ nPicked = 0
    /\ nRemoves = 0
    /\ table \in {<<>>, <<InitialRow>>}
    /\ bucket = {table[i].storage_path : i \in 1..Len(table)}
    /\ deletes = {}
    /\ downloadLog = <<>>
    /\ thumbnailEnv = UsualThumbnailEnv

\* useEffect: loadAllPdfs().then(...); loadAllPdfs returns [] on error
InitialLoadDone(ok) ==
    /\ isInitialLoading
    /\ books' = (IF ok THEN [i \in 1..Len(table) |-> CloudEntry(table[i])] ELSE <<>>)
    /\ isInitialLoading' = FALSE
    /\ UNCHANGED <<activeEntry, openFile, adds, opening, nPicked, nRemoves,
                   bucket, table, deletes, downloadLog,
                   thumbnailEnv, viewerVars, renderVars>>

\* ---------------------------------------------------- Index: handleAdd
\* `temp-${Date.now()}-${Math.random()}`: fresh for every file of every
\* invocation (k: the invocation, i: the file's index in it)
TempId(k, i) == <<"temp", k, i>>

\* uploadPdf: `${Date.now()}-${Math.random().toString(36).slice(2)}`
UploadId(k, i) == <<"id", k, i>>

\* setBooks((prev) => [...prev, tempEntry])
BooksWithPlaceholder(bks, tempId, file) == Append(bks, TempEntry(tempId, file))

\* mutant of Reconcile: the rollback drops the last entry of the list,
\* taking the placeholder to be still the last one
Reconcile_DropLast(bks, tempId, stored, file) ==
    IF stored # Null
    THEN [i \in 1..Len(bks) |->
            IF bks[i].id = tempId THEN RealEntry(stored[1], file) ELSE bks[i]]
    ELSE SubSeq(bks, 1, Len(bks) - 1)

\* mutant of Reconcile: on success the placeholder is removed and the
\* persisted entry is appended
Reconcile_RemoveAppend(bks, tempId, stored, file) ==
    IF stored # Null
    THEN Append(SelectSeq(bks, LAMBDA b : b.id # tempId),
                RealEntry(stored[1], file))
    ELSE SelectSeq(bks, LAMBDA b : b.id # tempId)

\* mutant of Reconcile: a failed upload is not rolled back
Reconcile_NoRollback(bks, tempId, stored, file) ==
    IF stored # Null
    THEN [i \in 1..Len(bks) |->
            IF bks[i].id = tempId THEN RealEntry(stored[1], file) ELSE bks[i]]
    ELSE bks

\* mutant of Reconcile: the list is left as it is whatever uploadPdf
\* returned
Reconcile_IgnoresResult(bks, tempId, stored, file) == bks

\* mutant of Reconcile: after a persisted upload the list is rebuilt from
\* the rows of pdf_library and the new entry
Reconcile_ReloadsLibrary(bks, tempId, stored, file) ==
    IF stored # Null
    THEN Append([i \in 1..Len(table) |-> CloudEntry(table[i])],
                RealEntry(stored[1], file))
    ELSE SelectSeq(bks, LAMBDA b : b.id # tempId)

\* the reconcile step after `await uploadPdf(...)`:
\* stored  -> prev.map((b) => (b.id === tempId ? realEntry : b))
\* null    -> prev.filter((b) => b.id !== tempId)
Reconcile(bks, tempId, stored, file) ==
    IF stored # Null
    THEN [i \in 1..Len(bks) |->
            IF bks[i].id = tempId THEN RealEntry(stored[1], file) ELSE bks[i]]
    ELSE SelectSeq(bks, LAMBDA b : b.id # tempId)

\* the locals of handleAdd invocation k when iteration i has started and
\* generateThumbnail(file) is awaited
AddIteration(a, k, i) ==
    [a EXCEPT !.i = i, !.pc = "thumbnail", !.tempId = TempId(k, i),
              !.thumbnail = Null]

\* Bookshelf.handleFiles(files) and, for a selection with a PDF in it,
\* the synchronous start of Index.handleAdd(pdfs): the first iteration up to
\* its `await generateThumbnail(file)`
handleFiles(files) ==
    /\ View = "bookshelf"
    /\ nPicked + Len(files) <= MaxFiles
    /\ nPicked' = nPicked + Len(files)
    /\ LET pdfs == SelectSeq(files, IsPdf)
           k == Len(adds) + 1
           fresh == [files |-> pdfs, i |-> 0, pc |-> "start", tempId |-> Null,
                     thumbnail |-> Null, results |-> <<>>]
       IN IF Len(pdfs) > 0
          THEN /\ adds' = Append(adds, AddIteration(fresh, k, 1))
               /\ books' = BooksWithPlaceholder(books, TempId(k, 1), pdfs[1])
          ELSE UNCHANGED <<adds, books>>
    /\ UNCHANGED <<activeEntry, openFile, isInitialLoading, opening, nRemoves,
                   bucket, table, deletes, downloadLog,
                   thumbnailEnv, viewerVars, renderVars>>

\* `await generateThumbnail(file)` settles: resolved, uploadPdf is called
\* and issues the storage upload; rejected, handleAdd rejects where it is
ThumbnailDone(k) ==
    /\ k \in 1..Len(adds)
    /\ adds[k].pc = "thumbnail"
    /\ LET outcome == generateThumbnail(adds[k].files[adds[k].i])
       IN  adds' = [adds EXCEPT
                      ![k].pc = IF outcome.raised THEN "rejected" ELSE "storage",
                      ![k].thumbnail = outcome.value]
    /\ UNCHANGED <<books, activeEntry, openFile, isInitialLoading, opening,
                   nPicked, nRemoves, bucket, table, deletes, downloadLog,
                   thumbnailEnv, viewerVars, renderVars>>

\* uploadPdf has returned `stored` (a row or null) to handleAdd: reconcile,
\* then either the next iteration runs up to its await or the invocation ends
AfterUpload(k, stored) ==
    LET a == adds[k]
        file == a.files[a.i]
        reconciled == Reconcile(books, a.tempId, stored, file)
        done == [a EXCEPT !.results = Append(a.results, stored)]
    IN IF a.i < Len(a.files)
       THEN /\ adds' = [adds EXCEPT ![k] = AddIteration(done, k, a.i + 1)]
            /\ books' = BooksWithPlaceholder(reconciled, TempId(k, a.i + 1),
                                             a.files[a.i + 1])
       ELSE /\ adds' = [adds EXCEPT ![k] = [done EXCEPT !.pc = "done",
                                                         !.tempId = Null,
                                                         !.thumbnail = Null]]
            /\ books' = reconciled

\* uploadPdf: the storage upload settles
StorageUploadDone(k, ok) ==
    /\ k \in 1..Len(adds)
    /\ adds[k].pc = "storage"
    /\ LET a == adds[k]
           file == a.files[a.i]
       IN IF ok
          THEN /\ bucket' = bucket \cup {StoragePath(UploadId(k, a.i), file.name)}
               /\ adds' = [adds EXCEPT ![k].pc = "db"]
               /\ UNCHANGED books
          ELSE /\ AfterUpload(k, Null)
               /\ UNCHANGED bucket
    /\ UNCHANGED <<activeEntry, openFile, isInitialLoading, opening,
                   nPicked, nRemoves, table, deletes, downloadLog,
                   thumbnailEnv, viewerVars, renderVars>>

\* uploadPdf: the pdf_library insert settles
DbInsertDone(k, ok) ==
    /\ k \in 1..Len(adds)
    /\ adds[k].pc = "db"
    /\ LET a == adds[k]
           row == StoredPdf(UploadId(k, a.i), a.files[a.i], a.thumbnail)
       IN IF ok
          THEN /\ table' = Append(table, row)
               /\ AfterUpload(k, Some(row))
          ELSE /\ AfterUpload(k, Null)
               /\ UNCHANGED table
    /\ UNCHANGED <<activeEntry, openFile, isInitialLoading, opening,
                   nPicked, nRemoves, bucket, deletes, downloadLog,
                   thumbnailEnv, viewerVars, renderVars>>

\* ------------------------------------------------- Index: handleRemove
\* the card at position p is clicked on its remove button
handleRemove(p) ==
    /\ View = "bookshelf"
    /\ p \in 1..Len(books)
    /\ ~isUploading(books[p])
    /\ nRemoves < MaxRemoves
    /\ nRemoves' = nRemoves + 1
    /\ LET id == books[p].id
           entry == books[CHOOSE i \in 1..Len(books) : books[i].id = id]
       IN /\ deletes' = (IF entry.storagePath # Null
                         THEN deletes \cup {[id |-> id,
                                             storagePath |-> entry.storagePath,
                                             pc |-> "storage"]}
                         ELSE deletes)
          /\ books' = SelectSeq(books, LAMBDA b : b.id # id)
    /\ UNCHANGED <<activeEntry, openFile, isInitialLoading, adds, opening,
                   nPicked, bucket, table, downloadLog,
                   thumbnailEnv, viewerVars, renderVars>>

\* deletePdf: storage.remove settles; its error is not looked at
DeleteStorageDone(d, ok) ==
    /\ d \in deletes
    /\ d.pc = "storage"
    /\ bucket' = (IF ok THEN bucket \ {d.storagePath} ELSE bucket)
    /\ deletes' = (deletes \ {d}) \cup {[d EXCEPT !.pc = "row"]}
    /\ UNCHANGED <<books, activeEntry, openFile, isInitialLoading, adds,
                   opening, nPicked, nRemoves, table, downloadLog,
                   thumbnailEnv, viewerVars, renderVars>>

\* mutant of DeleteRowDone: the list is reloaded from the table when the
\* delete has settled
DeleteRowDone_ReloadsList(d, ok) ==
    /\ d \in deletes
    /\ d.pc = "row"
    /\ table' = (IF ok THEN SelectSeq(table, LAMBDA r : r.id # d.id) ELSE table)
    /\ deletes' = deletes \ {d}
    /\ books' = [i \in 1..Len(table') |-> CloudEntry(table'[i])]
    /\ UNCHANGED <<activeEntry, openFile, isInitialLoading, adds,
                   opening, nPicked, nRemoves, bucket, downloadLog,
                   thumbnailEnv, viewerVars, renderVars>>

\* deletePdf: the row delete settles; its error is not looked at
DeleteRowDone(d, ok) ==
    /\ d \in deletes
    /\ d.pc = "row"
    /\ table' = (IF ok THEN SelectSeq(table, LAMBDA r : r.id # d.id) ELSE table)
    /\ deletes' = deletes \ {d}
    /\ UNCHANGED <<books, activeEntry, openFile, isInitialLoading, adds,
                   opening, nPicked, nRemoves, bucket, downloadLog,
                   thumbnailEnv, viewerVars, renderVars>>

\* --------------------------------------------------- Index: handleOpen
\* mutant of CacheFile: the downloaded File is not kept on the entry
CacheFile_None(bks, id, file) == bks

\* the cache update after a successful download
CacheFile(bks, id, file) ==
    [i \in 1..Len(bks) |->
        IF bks[i].id = id THEN [bks[i] EXCEPT !.file = Some(file)] ELSE bks[i]]

\* the card at position p is clicked
handleOpen(p) ==
    /\ View = "bookshelf"
    /\ p \in 1..Len(books)
    /\ ~isUploading(books[p])
    /\ LET entry == books[p]
       IN /\ activeEntry' = Some(entry)
          /\ IF entry.file # Null
             THEN /\ openFile' = entry.file
                  /\ UNCHANGED <<opening, downloadLog>>
             ELSE /\ opening' = Some(entry)
                  /\ downloadLog' = Append(downloadLog, entry.storagePath)
                  /\ UNCHANGED openFile
    /\ UNCHANGED <<books, isInitialLoading, adds, nPicked, nRemoves, bucket,
                   table, deletes,
                   thumbnailEnv, viewerVars, renderVars>>

\* `await downloadPdfAsFile(...)` resolves: a File when the blob was read,
\* null on any error
DownloadDone(ok) ==
    /\ opening # Null
    /\ ok => opening[1].storagePath \in bucket
    /\ opening' = Null
    /\ LET entry == opening[1]
           file == DownloadedFile(entry)
       IN IF ok
          THEN /\ openFile' = Some(file)
               /\ books' = CacheFile(books, entry.id, file)
          ELSE UNCHANGED <<openFile, books>>
    /\ UNCHANGED <<activeEntry, isInitialLoading, adds, nPicked, nRemoves,
                   bucket, table, deletes, downloadLog,
                   thumbnailEnv, viewerVars, renderVars>>

\* PdfViewer onClose: setActiveEntry(null); setOpenFile(null)
CloseViewer ==
    /\ View = "viewer"
    /\ activeEntry' = Null
    /\ openFile' = Null
    /\ UNCHANGED <<books, isInitialLoading, adds, opening, nPicked, nRemoves,
                   bucket, table, deletes, downloadLog,
                   thumbnailEnv, viewerVars, renderVars>>

\* ======================================================================
\* PdfViewer: loading, paging and scroll synchronisation
\* (src/src/components/PdfViewer.tsx shows one page on one canvas;
\*  src/unnamed/part_004, lines 274-741, lays all pages out in a scrolling
\*  container.  `variant` selects which of the two is mounted.)
\* Lengths along the scroll axis are in units of 24px.
\* ======================================================================

\* pages of the document of the 10-page scenario
ScenarioPages == 10
\* load(): while (!window.pdfjsLib && attempts < 20)
MaxAttempts == 20
\* scales are in thousandths: MIN_SCALE = 0.25, MAX_SCALE = 4.0,
\* SCALE_STEP = 0.25, and the scale a viewer starts with, useState(1.0)
MIN_SCALE == 250
MAX_SCALE == 4000
SCALE_STEP == 250
NeutralScale == 1000
\* className "... gap-6 ...": 24px between neighbouring page elements
Gap == 1
\* className "... px-6 ..." / "... py-6": 24px before the first page element
Pad == 1
\* size of the scroll container along the scroll axis
ViewportExtent == 3
\* sizes a page element can have along the scroll axis
PageExtents == {1, 2}
\* page counts pdf.numPages can report; a document has at least one page
PageCounts == (1..MaxPages) \cup {ScenarioPages}

Min(a, b) == IF a < b THEN a ELSE b
Max(a, b) == IF a > b THEN a ELSE b
Abs(a) == IF a < 0 THEN 0 - a ELSE a

DigitChars == <<"0", "1", "2", "3", "4", "5", "6", "7", "8", "9">>
IsDigit(c) == \E i \in 1..10 : DigitChars[i] = c
DigitValue(c) == (CHOOSE i \in 1..10 : DigitChars[i] = c) - 1

\* String(n) for a non-negative integer n: its decimal digits
RECURSIVE String(_)
String(n) ==
    IF n < 10 THEN <<DigitChars[n + 1]>>
    ELSE String(n \div 10) \o <<DigitChars[(n % 10) + 1]>>

RECURSIVE SkipSpaces(_)
SkipSpaces(s) ==
    IF s # <<>> /\ s[1] = " " THEN SkipSpaces(Tail(s)) ELSE s

RECURSIVE DigitPrefix(_, _)
DigitPrefix(s, acc) ==
    IF s # <<>> /\ IsDigit(s[1])
    THEN DigitPrefix(Tail(s), acc * 10 + DigitValue(s[1]))
    ELSE acc

NaN == [isNaN |-> TRUE, value |-> 0]

\* parseInt(s, 10): leading white space is skipped, then an optional sign,
\* then the longest run of digits; NaN when there is no digit
parseInt(s) ==
    LET t == SkipSpaces(s)
        signed == t # <<>> /\ t[1] \in {"-", "+"}
        u == IF signed THEN Tail(t) ELSE t
    IN  IF u = <<>> \/ ~IsDigit(u[1]) THEN NaN
        ELSE [isNaN |-> FALSE,
              value |-> (IF t[1] = "-" THEN 0 - 1 ELSE 1) * DigitPrefix(u, 0)]

\* texts the user types into the page field
InputTexts ==
    { <<>>, <<"0">>, <<"2">>, <<"1", "0">>, <<"2", "5">>, <<" ", "2">>,
      <<"-", "1">>, <<"2", ".", "7">>, <<"3", "a">>, <<"a", "b", "c">> }

\* pages the far jumps of navigate aim at (below and above every document)
FarTargets == {0, 25}

\* the deltas navigate is called with: one page back or forth, or as far
\* as it takes to aim at a page of FarTargets
NavigateDeltas == {0 - 1, 1} \cup {t - currentPage : t \in FarTargets}

\* navigate: const next = Math.min(numPages, Math.max(1, currentPage + delta))
NextPage_NoUpperClamp(cur, delta, n) == Max(1, cur + delta)

NextPage(cur, delta, n) == Min(n, Max(1, cur + delta))

\* commitPageInput: !isNaN(parsed) && parsed >= 1 && parsed <= numPages
AcceptsPage_NoUpperBound(parsed, n) == ~parsed.isNaN /\ parsed.value >= 1

AcceptsPage(parsed, n) ==
    ~parsed.isNaN /\ parsed.value >= 1 /\ parsed.value <= n

\* the render branches of the component
Ready == mounted /\ ~isLoading /\ error = Null
ControlsShown ==
    Ready /\ (variant = "scroll" => isMenuOpen)
\* the page wrappers that registered themselves in pageRefs
PageRefs == IF variant = "scroll" /\ Ready THEN 1..numPages ELSE {}

\* layout of the page elements along the scroll axis
PageStart(p, e) == Pad + (p - 1) * (e + Gap)
ContentExtent(n, e) == 2 * Pad + n * e + (n - 1) * Gap
MaxScrollOffset(n, e) == Max(0, ContentExtent(n, e) - ViewportExtent)
ScrollOffsets == 0..(IF PageRefs = {} THEN 0 ELSE MaxScrollOffset(numPages, pageExtent))
\* twice |center of page p - center of the container|
Distance2(p, s, e) == Abs(2 * (PageStart(p, e) - s) + e - ViewportExtent)

\* scrollIntoView({block: "center", inline: "center"})
ScrollIntoViewOffset(p, n, e) ==
    Min(MaxScrollOffset(n, e),
        Max(0, (2 * PageStart(p, e) + e - ViewportExtent) \div 2))

\* scrollToPage: no element registered for the page, no scrolling
scrollToPage(page) ==
    IF page \in PageRefs
    THEN ScrollIntoViewOffset(page, numPages, pageExtent)
    ELSE scrollOffset

\* the loop with `distance <= nearestDistance`: of two pages equally near
\* the later one is kept
RECURSIVE NearestFrom_LastWins(_, _, _, _, _, _)
NearestFrom_LastWins(page, n, s, e, nearestPage, nearestDistance) ==
    IF page > n THEN nearestPage
    ELSE IF page \in PageRefs
              /\ (nearestDistance = Null
                    \/ Distance2(page, s, e) <= nearestDistance[1])
         THEN NearestFrom_LastWins(page + 1, n, s, e, page,
                                   Some(Distance2(page, s, e)))
         ELSE NearestFrom_LastWins(page + 1, n, s, e, nearestPage,
                                   nearestDistance)

\* the loop of syncCurrentPageFromScroll over pages page..n
RECURSIVE NearestFrom(_, _, _, _, _, _)
NearestFrom(page, n, s, e, nearestPage, nearestDistance) ==
    IF page > n THEN nearestPage
    ELSE IF page \in PageRefs
              /\ (nearestDistance = Null \/ Distance2(page, s, e) < nearestDistance[1])
         THEN NearestFrom(page + 1, n, s, e, page, Some(Distance2(page, s, e)))
         ELSE NearestFrom(page + 1, n, s, e, nearestPage, nearestDistance)

\* nearestPage = currentPage, nearestDistance = +Infinity (Null), then the loop
NearestPage(s) == NearestFrom(1, numPages, s, pageExtent, currentPage, Null)

\* the page slots: the single-page viewer has one canvas (slot 1), the
\* scrolling viewer one canvas per page
Slots == 1..MaxPages
ScrollModes == {"vertical", "horizontal"}
\* a canvas no render was requested for; threads are numbered from 1
BlankCanvas == [requestedBy |-> 0, sizedBy |-> 0, drawnBy |-> 0]

\* nothing is being rendered
InitRender ==
    /\ scale = NeutralScale
    /\ displayScale = NeutralScale
    /\ isFitMode = TRUE
    /\ effectDeps = Null
    /\ renderedScale = Null
    /\ consoleErrors = {}
    /\ pageLoaded = {}
    /\ threads = <<>>
    /\ waiters = <<>>
    /\ micro = <<>>
    /\ running = {}
    /\ renderTaskRef = [slot \in Slots |-> Null]
    /\ canvas = [slot \in Slots |-> BlankCanvas]

\* the first file, useRef<string | null>(null), nothing created yet
InitUrls ==
    /\ fileProp = 1
    /\ objectUrlRef = Null
    /\ blobUrls = {}
    /\ superseded = {}

InitViewer ==
    /\ variant \in {"single", "scroll"}
    /\ mounted = TRUE
    /\ cancelled = FALSE
    /\ pdfjsLib \in BOOLEAN
    /\ attempts = 0
    /\ loadPc = "effect"
    /\ numPages = 0
    /\ currentPage = 1
    /\ pageInputValue = <<"1">>
    /\ isLoading = TRUE
    /\ error = Null
    /\ scrollMode = "vertical"
    /\ isMenuOpen = FALSE
    /\ scrollOffset = 0
    /\ pageExtent \in (IF variant = "scroll" THEN PageExtents ELSE {1})
    /\ containerFit = [m \in ScrollModes |-> NeutralScale]
    /\ InitUrls
    /\ InitRender

\* no viewer is mounted
NoViewer ==
    /\ variant = "single"
    /\ mounted = FALSE
    /\ cancelled = FALSE
    /\ pdfjsLib = FALSE
    /\ attempts = 0
    /\ loadPc = "effect"
    /\ numPages = 0
    /\ currentPage = 1
    /\ pageInputValue = <<"1">>
    /\ isLoading = TRUE
    /\ error = Null
    /\ scrollMode = "vertical"
    /\ isMenuOpen = FALSE
    /\ scrollOffset = 0
    /\ pageExtent = 1
    /\ containerFit = [m \in ScrollModes |-> NeutralScale]
    /\ InitUrls
    /\ InitRender

\* load(), from the library being there to the await of getDocument
\* if (objectUrlRef.current) URL.revokeObjectURL(objectUrlRef.current);
\* const url = URL.createObjectURL(file); objectUrlRef.current = url;
\* as the load() activation of file g runs it
CreateObjectUrl(g) ==
    /\ blobUrls' = (blobUrls \ {objectUrlRef[i] : i \in 1..Len(objectUrlRef)})
                       \cup {g}
    /\ objectUrlRef' = Some(g)

\* the state setters of load() between the polling loop and getDocument
LoadSetters ==
    /\ isLoading' = TRUE
    /\ error' = Null
    /\ currentPage' = 1
    /\ pageInputValue' = <<"1">>
    /\ IF variant = "scroll"
          THEN scale' = NeutralScale /\ displayScale' = NeutralScale
          ELSE UNCHANGED <<scale, displayScale>>
    /\ isFitMode' = TRUE

BeginParse ==
    /\ CreateObjectUrl(fileProp)
    /\ LoadSetters
    /\ loadPc' = "parse"

\* load(), the library never arrived
LibraryMissing ==
    /\ error' = Some("PDF-Bibliothek konnte nicht geladen werden.")
    /\ isLoading' = FALSE
    /\ loadPc' = "done"
    /\ UNCHANGED <<currentPage, pageInputValue, zoomVars, objectUrlRef,
                   blobUrls>>

\* the load effect runs after mount: load() up to its first await
LoadStart ==
    /\ mounted /\ loadPc = "effect"
    /\ IF pdfjsLib
          THEN BeginParse
          ELSE /\ loadPc' = "wait"
               /\ UNCHANGED <<isLoading, error, currentPage, pageInputValue,
                              zoomVars, objectUrlRef, blobUrls>>
    /\ UNCHANGED <<fileProp, superseded, variant, mounted, cancelled, pdfjsLib, attempts, numPages,
                   scrollMode, isMenuOpen, scrollOffset, pageExtent, shellVars,
                   asyncVars>>

\* while (!window.pdfjsLib) with no bound on attempts
KeepsPolling_Unbounded == ~pdfjsLib

\* the loop condition `!window.pdfjsLib && attempts < 20`, evaluated after
\* the attempts++ that follows a wait
KeepsPolling == ~pdfjsLib /\ attempts + 1 < MaxAttempts

\* one 100ms wait of the polling loop ends.  State setters of an
\* unmounted component have no effect.  attempts is not read once the
\* loop is left and goes back to 0 then.
PollTick ==
    /\ loadPc = "wait"
    /\ IF KeepsPolling
          THEN /\ attempts' = attempts + 1
               /\ UNCHANGED <<loadPc, isLoading, error, currentPage,
                              pageInputValue, zoomVars, objectUrlRef,
                              blobUrls>>
          ELSE /\ attempts' = 0
               /\ IF ~mounted
                     THEN /\ loadPc' = (IF pdfjsLib THEN "parse" ELSE "done")
                          /\ IF pdfjsLib
                                THEN CreateObjectUrl(fileProp)
                                ELSE UNCHANGED <<objectUrlRef, blobUrls>>
                          /\ UNCHANGED <<isLoading, error, currentPage,
                                         pageInputValue, zoomVars>>
                     ELSE IF pdfjsLib THEN BeginParse ELSE LibraryMissing
    /\ UNCHANGED <<fileProp, superseded, variant, mounted, cancelled, pdfjsLib, numPages,
                   scrollMode, isMenuOpen, scrollOffset, pageExtent, shellVars,
                   asyncVars>>

\* the script of the rendering engine finishes loading
LibLoaded ==
    /\ ~pdfjsLib
    /\ loadPc \in {"effect", "wait"}
    /\ pdfjsLib' = TRUE
    /\ UNCHANGED <<urlVars,
                   variant, mounted, cancelled, attempts, loadPc, numPages,
                   currentPage, pageInputValue, isLoading, error, scrollMode,
                   isMenuOpen, scrollOffset, pageExtent, shellVars, renderVars>>

\* getDocument(...).promise settles: with a document of n pages, or rejected
ParseDone(ok, n) ==
    /\ loadPc = "parse"
    /\ loadPc' = "done"
    /\ IF cancelled
          THEN UNCHANGED <<numPages, isLoading, error>>
          ELSE IF ok
                  THEN /\ numPages' = n
                       /\ isLoading' = FALSE
                       /\ UNCHANGED error
                  ELSE /\ error' = Some("PDF konnte nicht geladen werden.")
                       /\ isLoading' = FALSE
                       /\ UNCHANGED numPages
    /\ UNCHANGED <<urlVars,
                   variant, mounted, cancelled, pdfjsLib, attempts,
                   currentPage, pageInputValue, scrollMode, isMenuOpen,
                   scrollOffset, pageExtent, shellVars, renderVars>>

\* navigate(delta).  The toolbar calls it with -1 and +1 and disables the
\* button at the first and the last page; the function itself takes any
\* delta from any page, and that is what is modelled.
navigate(delta) ==
    /\ ControlsShown
    /\ LET next == NextPage(currentPage, delta, numPages)
       IN  /\ currentPage' = next
           /\ pageInputValue' = String(next)
           /\ scrollOffset' = (IF variant = "scroll" THEN scrollToPage(next)
                                                     ELSE scrollOffset)
    /\ UNCHANGED <<urlVars,
                   variant, mounted, cancelled, pdfjsLib, attempts, loadPc,
                   numPages, isLoading, error, scrollMode, isMenuOpen,
                   pageExtent, shellVars, renderVars>>

\* onChange of the page field
TypePageInput(text) ==
    /\ ControlsShown
    /\ text # pageInputValue
    /\ pageInputValue' = text
    /\ UNCHANGED <<urlVars,
                   variant, mounted, cancelled, pdfjsLib, attempts, loadPc,
                   numPages, currentPage, isLoading, error, scrollMode,
                   isMenuOpen, scrollOffset, pageExtent, shellVars, renderVars>>

\* commitPageInput (blur or Enter)
commitPageInput ==
    /\ ControlsShown
    /\ LET parsed == parseInt(pageInputValue)
       IN  IF AcceptsPage(parsed, numPages)
           THEN /\ currentPage' = parsed.value
                /\ scrollOffset' = (IF variant = "scroll"
                                    THEN scrollToPage(parsed.value)
                                    ELSE scrollOffset)
                /\ UNCHANGED pageInputValue
           ELSE /\ pageInputValue' = String(currentPage)
                /\ UNCHANGED <<currentPage, scrollOffset>>
    /\ UNCHANGED <<urlVars,
                   variant, mounted, cancelled, pdfjsLib, attempts, loadPc,
                   numPages, isLoading, error, scrollMode, isMenuOpen,
                   pageExtent, shellVars, renderVars>>

\* the container scrolls to offset s and onScroll runs
\* syncCurrentPageFromScroll
syncCurrentPageFromScroll(s) ==
    /\ mounted /\ variant = "scroll"
    /\ s \in ScrollOffsets
    /\ scrollOffset' = s
    /\ IF numPages = 0 \/ NearestPage(s) = currentPage
          THEN UNCHANGED <<currentPage, pageInputValue>>
          ELSE /\ currentPage' = NearestPage(s)
               /\ pageInputValue' = String(NearestPage(s))
    /\ UNCHANGED <<urlVars,
                   variant, mounted, cancelled, pdfjsLib, attempts, loadPc,
                   numPages, isLoading, error, scrollMode, isMenuOpen,
                   pageExtent, shellVars, renderVars>>

\* the page elements get another size (zoom, fit, resize); the browser
\* keeps the scroll offset inside the content
Relayout(e) ==
    /\ PageRefs # {}
    /\ e # pageExtent
    /\ pageExtent' = e
    /\ scrollOffset' = Min(scrollOffset, MaxScrollOffset(numPages, e))
    /\ UNCHANGED <<urlVars,
                   variant, mounted, cancelled, pdfjsLib, attempts, loadPc,
                   numPages, currentPage, pageInputValue, isLoading, error,
                   scrollMode, isMenuOpen, shellVars, renderVars>>

\* toggleScrollMode without setIsFitMode(true)
toggleScrollMode_KeepsZoom ==
    /\ variant = "scroll" /\ ControlsShown
    /\ scrollMode' = (IF scrollMode = "vertical" THEN "horizontal" ELSE "vertical")
    /\ scrollOffset' \in ScrollOffsets
    /\ isFitMode' = isFitMode
    /\ UNCHANGED <<urlVars,
                   variant, mounted, cancelled, pdfjsLib, attempts, loadPc,
                   numPages, currentPage, pageInputValue, isLoading, error,
                   isMenuOpen, pageExtent, shellVars, scale, displayScale,
                   asyncVars>>

\* toggleScrollMode: the pages are laid out along the other axis, where
\* the container stands at whatever offset it had there
toggleScrollMode ==
    /\ variant = "scroll" /\ ControlsShown
    /\ scrollMode' = (IF scrollMode = "vertical" THEN "horizontal" ELSE "vertical")
    /\ scrollOffset' \in ScrollOffsets
    /\ isFitMode' = TRUE
    /\ UNCHANGED <<urlVars,
                   variant, mounted, cancelled, pdfjsLib, attempts, loadPc,
                   numPages, currentPage, pageInputValue, isLoading, error,
                   isMenuOpen, pageExtent, shellVars, scale, displayScale,
                   asyncVars>>

\* the menu button of the header
toggleMenu ==
    /\ mounted /\ variant = "scroll"
    /\ isMenuOpen' = ~isMenuOpen
    /\ UNCHANGED <<urlVars,
                   variant, mounted, cancelled, pdfjsLib, attempts, loadPc,
                   numPages, currentPage, pageInputValue, isLoading, error,
                   scrollMode, scrollOffset, pageExtent, shellVars, renderVars>>

\* how often the parent hands a mounted viewer another file
MaxReplacements == 1

\* The `file` prop of the mounted viewer changes.  The load effect depends
\* on [file]: its cleanup sets `cancelled` of the activation that is
\* running, and the effect runs again with a `cancelled` of its own.  The
\* component's state and objectUrlRef stay as they are; an activation that
\* is suspended at an await goes on from there when the await settles.
ReplaceFile ==
    /\ mounted
    /\ fileProp <= MaxReplacements
    /\ fileProp' = fileProp + 1
    /\ superseded' = superseded \cup
          (IF loadPc \in {"wait", "parse"}
              THEN {[file |-> fileProp, pc |-> loadPc, attempts |-> attempts]}
              ELSE {})
    /\ loadPc' = "effect"
    /\ attempts' = 0
    /\ UNCHANGED <<objectUrlRef, blobUrls, variant, mounted, cancelled,
                   pdfjsLib, numPages, currentPage, pageInputValue, isLoading,
                   error, scrollMode, isMenuOpen, scrollOffset, pageExtent,
                   shellVars, renderVars>>

\* one 100ms wait of a superseded activation ends.  Nothing between the
\* loop and getDocument reads `cancelled`.
SupersededPollTick(s) ==
    /\ s \in superseded
    /\ s.pc = "wait"
    /\ IF ~pdfjsLib /\ s.attempts + 1 < MaxAttempts
          THEN /\ superseded' = (superseded \ {s})
                                    \cup {[s EXCEPT !.attempts = @ + 1]}
               /\ UNCHANGED <<isLoading, error, currentPage, pageInputValue,
                              zoomVars, objectUrlRef, blobUrls>>
          ELSE IF pdfjsLib
                  THEN /\ superseded' = (superseded \ {s})
                              \cup {[s EXCEPT !.pc = "parse", !.attempts = 0]}
                       /\ CreateObjectUrl(s.file)
                       /\ IF mounted
                             THEN LoadSetters
                             ELSE UNCHANGED <<isLoading, error, currentPage,
                                              pageInputValue, zoomVars>>
                  ELSE /\ superseded' = superseded \ {s}
                       /\ IF mounted
                             THEN /\ error' = Some("PDF-Bibliothek konnte nicht geladen werden.")
                                  /\ isLoading' = FALSE
                             ELSE UNCHANGED <<isLoading, error>>
                       /\ UNCHANGED <<currentPage, pageInputValue, zoomVars,
                                      objectUrlRef, blobUrls>>
    /\ UNCHANGED <<fileProp, loadPc, attempts, variant, mounted, cancelled,
                   pdfjsLib, numPages, scrollMode, isMenuOpen, scrollOffset,
                   pageExtent, shellVars, asyncVars>>

\* getDocument of a superseded activation settles: `if (cancelled) return`
\* in the try block and in the catch block
SupersededParseDone(s) ==
    /\ s \in superseded
    /\ s.pc = "parse"
    /\ superseded' = superseded \ {s}
    /\ UNCHANGED <<fileProp, objectUrlRef, blobUrls, variant, mounted,
                   cancelled, pdfjsLib, attempts, loadPc, numPages,
                   currentPage, pageInputValue, isLoading, error, scrollMode,
                   isMenuOpen, scrollOffset, pageExtent, shellVars, renderVars>>

\* onClose: the shell unmounts the viewer, the effect's cleanup runs and
\* the component's state is gone.  The single-page viewer always shows its
\* back button; the scrolling one has it in the open menu and on the error
\* panel.
Close ==
    /\ mounted
    /\ variant = "scroll" => (ControlsShown \/ error # Null)
    /\ mounted' = FALSE
    /\ cancelled' = TRUE
    /\ numPages' = 0
    /\ currentPage' = 1
    /\ pageInputValue' = <<"1">>
    /\ isLoading' = TRUE
    /\ error' = Null
    /\ scrollMode' = "vertical"
    /\ isMenuOpen' = FALSE
    /\ scrollOffset' = 0
    /\ scale' = NeutralScale
    /\ displayScale' = NeutralScale
    /\ isFitMode' = TRUE
    /\ effectDeps' = Null
    /\ renderedScale' = Null
    /\ consoleErrors' = {}
    /\ pageLoaded' = {}
    /\ threads' = <<>>
    /\ waiters' = <<>>
    /\ micro' = <<>>
    /\ running' = {}
    /\ renderTaskRef' = [slot \in Slots |-> Null]
    /\ canvas' = [slot \in Slots |-> BlankCanvas]
    /\ blobUrls' = blobUrls \ {objectUrlRef[i] : i \in 1..Len(objectUrlRef)}
    /\ UNCHANGED <<fileProp, objectUrlRef, superseded, variant, pdfjsLib,
                   attempts, loadPc, pageExtent, shellVars, containerFit>>

\* ======================================================================
\* PdfViewer: zoom, fit mode and rendering
\* ======================================================================

\* scales computeFitScale can yield, per container size and scroll mode:
\* any value of [MIN_SCALE, MAX_SCALE], multiples of the step or not
FitScales == {835, 3900}

\* +(x).toFixed(2): x rounded to hundredths.  Which way a value halfway
\* between two hundredths goes depends on its binary representation, so
\* both ways are possible there.
ToFixed2(x) ==
    LET r == x % 10
    IN  IF r < 5 THEN {x - r}
        ELSE IF r > 5 THEN {x - r + 10}
        ELSE {x - r, x - r + 10}

\* zoomIn: Math.min(MAX_SCALE, +(scale + SCALE_STEP).toFixed(2))
ZoomInResults_Unclamped(s) == ToFixed2(s + SCALE_STEP)

ZoomInResults(s) == {Min(MAX_SCALE, r) : r \in ToFixed2(s + SCALE_STEP)}

\* zoomOut: Math.max(MIN_SCALE, +(scale - SCALE_STEP).toFixed(2))
ZoomOutResults(s) == {Max(MIN_SCALE, r) : r \in ToFixed2(s - SCALE_STEP)}

\* zoomIn; its button is disabled at scale >= MAX_SCALE
zoomIn ==
    /\ ControlsShown
    /\ scale < MAX_SCALE
    /\ isFitMode' = FALSE
    /\ \E next \in ZoomInResults(scale) :
          scale' = next /\ displayScale' = next
    /\ UNCHANGED <<viewerVars, shellVars, asyncVars>>

\* zoomOut; its button is disabled at scale <= MIN_SCALE
zoomOut ==
    /\ ControlsShown
    /\ scale > MIN_SCALE
    /\ isFitMode' = FALSE
    /\ \E next \in ZoomOutResults(scale) :
          scale' = next /\ displayScale' = next
    /\ UNCHANGED <<viewerVars, shellVars, asyncVars>>

\* fitWidth / fitViewport
fitWidth ==
    /\ ControlsShown
    /\ isFitMode' = TRUE
    /\ UNCHANGED <<viewerVars, shellVars, scale, displayScale, asyncVars>>

\* ---------------------------------------------------------------- the shell
Init == InitShell /\ NoViewer

Next ==
    \/ \E ok \in BOOLEAN : InitialLoadDone(ok)
    \/ \E files \in Selections : handleFiles(files)
    \/ \E k \in 1..Len(adds) : ThumbnailDone(k)
    \/ \E k \in 1..Len(adds), ok \in BOOLEAN : StorageUploadDone(k, ok)
    \/ \E k \in 1..Len(adds), ok \in BOOLEAN : DbInsertDone(k, ok)
    \/ \E p \in 1..Len(books) : handleRemove(p)
    \/ \E d \in deletes, ok \in BOOLEAN : DeleteStorageDone(d, ok)
    \/ \E d \in deletes, ok \in BOOLEAN : DeleteRowDone(d, ok)
    \/ \E p \in 1..Len(books) : handleOpen(p)
    \/ \E ok \in BOOLEAN : DownloadDone(ok)
    \/ CloseViewer

Spec == Init /\ [][Next]_vars

\* thumbnail generation and the two requests of uploadPdf settle: every
\* await of a handleAdd invocation is resumed in the end
SpecFair ==
    /\ Spec
    /\ \A k \in 1..MaxFiles :
          /\ WF_vars(ThumbnailDone(k))
          /\ WF_vars(\E ok \in BOOLEAN : StorageUploadDone(k, ok))
          /\ WF_vars(\E ok \in BOOLEAN : DbInsertDone(k, ok))

\* ------------------------------------------------- adding with thumbnails
\* The shell on an empty library while files are added, whatever the
\* engine and the DOM do to generateThumbnail (the same for every file).
InitThumbnailSpec ==
    /\ books = <<>>
    /\ activeEntry = Null
    /\ openFile = Null
    /\ isInitialLoading = TRUE
    /\ adds = <<>>
    /\ opening = Null
    /\ nPicked = 0
    /\ nRemoves = 0
    /\ table = <<>>
    /\ bucket = {}
    /\ deletes = {}
    /\ downloadLog = <<>>
    /\ thumbnailEnv \in {[n \in FileNames |-> env] : env \in ThumbnailEnvs}
    /\ NoViewer

NextThumbnail ==
    \/ \E ok \in BOOLEAN : InitialLoadDone(ok)
    \/ \E files \in Selections : handleFiles(files)
    \/ \E k \in 1..Len(adds) : ThumbnailDone(k)
    \/ \E k \in 1..Len(adds), ok \in BOOLEAN : StorageUploadDone(k, ok)
    \/ \E k \in 1..Len(adds), ok \in BOOLEAN : DbInsertDone(k, ok)

SpecThumbnail == InitThumbnailSpec /\ [][NextThumbnail]_vars

\* --------------------------------------------------------------- the viewer
\* The shell rests on an empty shelf while one viewer lives its life.
ShellAtRest ==
    /\ books = <<>>
    /\ activeEntry = Null
    /\ openFile = Null
    /\ isInitialLoading = FALSE
    /\ adds = <<>>
    /\ opening = Null
    /\ nPicked = 0
    /\ nRemoves = 0
    /\ bucket = {}
    /\ table = <<>>
    /\ deletes = {}
    /\ downloadLog = <<>>
    /\ thumbnailEnv = UsualThumbnailEnv

InitViewerSpec == ShellAtRest /\ InitViewer

NextViewer ==
    \/ LoadStart
    \/ PollTick
    \/ LibLoaded
    \/ \E ok \in BOOLEAN, n \in PageCounts : ParseDone(ok, n)
    \/ \E delta \in NavigateDeltas : navigate(delta)
    \/ \E text \in InputTexts : TypePageInput(text)
    \/ commitPageInput
    \/ \E s \in ScrollOffsets : syncCurrentPageFromScroll(s)
    \/ \E e \in PageExtents : Relayout(e)
    \/ toggleScrollMode
    \/ toggleMenu
    \/ Close

SpecViewer == InitViewerSpec /\ [][NextViewer]_vars

\* the timer of a pending wait fires: setTimeout(r, 100) always calls back
SpecViewerFair == SpecViewer /\ WF_vars(PollTick)

\* ------------------------------------------------- loading and replacing
\* One mount of the viewer from its first load effect to its unmount, the
\* parent replacing the file up to MaxReplacements times: the loads, the
\* blob URLs and what superseded loads still do.  Rendering is left out.
LoadPageCounts == {1}

NextLoad ==
    \/ LoadStart
    \/ PollTick
    \/ LibLoaded
    \/ \E ok \in BOOLEAN, n \in LoadPageCounts : ParseDone(ok, n)
    \/ ReplaceFile
    \/ \E s \in superseded : SupersededPollTick(s)
    \/ \E s \in superseded : SupersededParseDone(s)
    \/ Close

SpecLoad == InitViewerSpec /\ [][NextLoad]_vars

\* ------------------------------------------------------ the zoom buttons
\* zoomIn and zoomOut as functions of the scale: a loaded viewer with its
\* controls shown, in fit mode at a scale the load or a fit computation
\* left, takes any sequence of zoom clicks.
StartScales == {MIN_SCALE, NeutralScale, MAX_SCALE} \cup FitScales

InitZoomSpec ==
    /\ ShellAtRest
    /\ variant \in {"single", "scroll"}
    /\ mounted = TRUE
    /\ cancelled = FALSE
    /\ pdfjsLib = TRUE
    /\ attempts = 0
    /\ loadPc = "done"
    /\ numPages = 1
    /\ currentPage = 1
    /\ pageInputValue = <<"1">>
    /\ isLoading = FALSE
    /\ error = Null
    /\ scrollMode = "vertical"
    /\ isMenuOpen = (variant = "scroll")
    /\ scrollOffset = 0
    /\ pageExtent = 1
    /\ fileProp = 1
    /\ objectUrlRef = Some(1)
    /\ blobUrls = {1}
    /\ superseded = {}
    /\ scale \in StartScales
    /\ displayScale = scale
    /\ isFitMode = TRUE
    /\ containerFit = [m \in ScrollModes |-> scale]
    /\ effectDeps = Null
    /\ renderedScale = Some(scale)
    /\ consoleErrors = {}
    /\ pageLoaded = {}
    /\ threads = <<>>
    /\ waiters = <<>>
    /\ micro = <<>>
    /\ running = {}
    /\ renderTaskRef = [slot \in Slots |-> Null]
    /\ canvas = [slot \in Slots |-> BlankCanvas]

NextZoom ==
    \/ zoomIn
    \/ zoomOut
    \/ fitWidth

SpecZoom == InitZoomSpec /\ [][NextZoom]_vars

\* ---- the render effect, renderPage / renderSinglePage, the event loop
\* A step is either one macrotask (a user event, a settled promise of the
\* engine, React's effect run) or one microtask: the continuation of the
\* async function at the head of `micro`, run up to its next await.
\* Macrotasks run only when the microtask queue is empty.

\* async activations after which no further user event is taken
MaxThreads == 3
\* page counts of the documents whose rendering is followed
RenderPageCounts == {1, 2}

\* the canvas a render of a page goes to
SlotOf(page) == IF variant = "single" THEN 1 ELSE page

\* the dependency list of the render effect: [currentPage, scale,
\* isLoading, error, isFitMode] in the single-page viewer; [isLoading,
\* error, numPages, scale, isFitMode, computeFitScale, renderAllPages] in
\* the scrolling one, where computeFitScale changes with scrollMode and
\* renderAllPages with numPages
RenderDeps_WithCurrentPage ==
    <<currentPage, scale, isLoading, error, isFitMode, numPages, scrollMode>>

RenderDeps ==
    IF variant = "single"
    THEN <<currentPage, scale, isLoading, error, isFitMode>>
    ELSE <<isLoading, error, numPages, scale, isFitMode, scrollMode>>

\* React has rendered a state the render effect has not run on yet
EffectDue == mounted /\ effectDeps # Some(RenderDeps)

\* no microtask is queued and no effect is due: the next event is handled
Quiet == micro = <<>> /\ ~EffectDue

FinishedThread(kind) ==
    [kind |-> kind, pc |-> "done", page |-> 0, cScale |-> 0, cFit |-> FALSE,
     cMode |-> "vertical", cPages |-> 0]

\* await pdf.getPage(p) by thread t: a resolved promise continues in a
\* microtask, an unresolved one when the page arrives
AfterAwaitPage(q, t, p) ==
    IF p \in pageLoaded
    THEN [micro |-> Append(q.micro, t), waiters |-> q.waiters]
    ELSE [micro |-> q.micro, waiters |-> Append(q.waiters, t)]

\* a catch block that logs whatever it catches
Logged_All(name) == TRUE

\* the catch block around `await task.promise`: is an exception of this
\* name passed to console.error
Logged(name) == name # "RenderingCancelledException"

\* task.cancel(): a task still running stops and its promise rejects, which
\* continues the thread awaiting it; a settled task is left as it is
AfterCancel(q, ref) ==
    IF ref # Null /\ ref[1] \in running
    THEN [micro |-> Append(q.micro, ref[1][1]), waiters |-> q.waiters]
    ELSE q

\* the synchronous head of renderPage / renderSinglePage(page), called by
\* thread t: cancel the slot's task, then await getPage(page)
CallRenderPage(t, rec, page, q) ==
    LET slot == SlotOf(page)
        ref == renderTaskRef[slot]
        q1 == AfterCancel(q, ref)
        q2 == AfterAwaitPage(q1, t, page)
    IN  /\ running' = (IF ref # Null THEN running \ {ref[1]} ELSE running)
        /\ consoleErrors' =
              (IF ref # Null /\ ref[1] \in running
                             /\ Logged("RenderingCancelledException")
                  THEN consoleErrors \cup {"RenderingCancelledException"}
                  ELSE consoleErrors)
        /\ renderTaskRef' = (IF variant = "single"
                             THEN [renderTaskRef EXCEPT ![slot] = Null]
                             ELSE renderTaskRef)
        /\ canvas' = [canvas EXCEPT ![slot].requestedBy = t]
        /\ threads' = [threads EXCEPT ![t] = [rec EXCEPT !.pc = "getPage2",
                                                         !.page = page]]
        /\ micro' = q2.micro
        /\ waiters' = q2.waiters

\* the render effect with `if (isLoading) return` as its guard
RenderEffect_NoErrorGuard ==
    /\ EffectDue /\ micro = <<>>
    /\ effectDeps' = Some(RenderDeps)
    /\ IF isLoading \/ (variant = "scroll" /\ numPages = 0)
          THEN UNCHANGED <<threads, micro, waiters>>
          ELSE LET t == Len(threads) + 1
                   first == IF variant = "single" THEN currentPage ELSE 1
                   q == AfterAwaitPage([micro |-> micro, waiters |-> waiters],
                                       t, first)
               IN  /\ threads' = Append(threads,
                          [kind |-> "render", pc |-> "getPage1", page |-> first,
                           cScale |-> scale, cFit |-> isFitMode,
                           cMode |-> scrollMode, cPages |-> numPages])
                   /\ micro' = q.micro
                   /\ waiters' = q.waiters
    /\ UNCHANGED <<viewerVars, shellVars, zoomVars, containerFit, pageLoaded,
                   renderedScale, consoleErrors, running, renderTaskRef,
                   canvas>>

\* the render effect runs on the state React rendered last
RenderEffect ==
    /\ EffectDue /\ micro = <<>>
    /\ effectDeps' = Some(RenderDeps)
    /\ IF isLoading \/ error # Null \/ (variant = "scroll" /\ numPages = 0)
          THEN UNCHANGED <<threads, micro, waiters>>
          ELSE LET t == Len(threads) + 1
                   first == IF variant = "single" THEN currentPage ELSE 1
                   q == AfterAwaitPage([micro |-> micro, waiters |-> waiters],
                                       t, first)
               IN  /\ threads' = Append(threads,
                          [kind |-> "render", pc |-> "getPage1", page |-> first,
                           cScale |-> scale, cFit |-> isFitMode,
                           cMode |-> scrollMode, cPages |-> numPages])
                   /\ micro' = q.micro
                   /\ waiters' = q.waiters
    /\ UNCHANGED <<viewerVars, shellVars, zoomVars, containerFit, pageLoaded,
                   renderedScale, consoleErrors, running, renderTaskRef,
                   canvas>>

\* doRender with a computeFitScale that measures the page at the scale the
\* pass was started with (getViewport({scale}) in place of {scale: 1})
DoRenderContinues_FitsScaledPage(t) ==
    LET rec == threads[t]
        fit == Max(MIN_SCALE, Min(MAX_SCALE,
                   (1000 * containerFit[rec.cMode]) \div rec.cScale))
    IN  /\ IF rec.cFit
              THEN scale' = fit /\ displayScale' = fit
              ELSE displayScale' = rec.cScale /\ UNCHANGED scale
        /\ renderedScale' = Some(IF rec.cFit THEN fit ELSE rec.cScale)
        /\ CallRenderPage(t, rec, rec.page,
                          [micro |-> Tail(micro), waiters |-> waiters])
        /\ UNCHANGED <<viewerVars, shellVars, isFitMode, containerFit,
                       effectDeps, pageLoaded>>

\* doRender without setDisplayScale(fit) in its fit branch
DoRenderContinues_KeepsDisplay(t) ==
    LET rec == threads[t]
        fit == containerFit[rec.cMode]
    IN  /\ IF rec.cFit
              THEN scale' = fit /\ UNCHANGED displayScale
              ELSE displayScale' = rec.cScale /\ UNCHANGED scale
        /\ renderedScale' = Some(IF rec.cFit THEN fit ELSE rec.cScale)
        /\ CallRenderPage(t, rec, rec.page,
                          [micro |-> Tail(micro), waiters |-> waiters])
        /\ UNCHANGED <<viewerVars, shellVars, isFitMode, containerFit,
                       effectDeps, pageLoaded>>

\* doRender after its await of getPage: the effective scale, then
\* renderPage / renderAllPages up to the next await
DoRenderContinues(t) ==
    LET rec == threads[t]
        fit == containerFit[rec.cMode]
    IN  /\ IF rec.cFit
              THEN scale' = fit /\ displayScale' = fit
              ELSE displayScale' = rec.cScale /\ UNCHANGED scale
        /\ renderedScale' = Some(IF rec.cFit THEN fit ELSE rec.cScale)
        /\ CallRenderPage(t, rec, rec.page,
                          [micro |-> Tail(micro), waiters |-> waiters])
        /\ UNCHANGED <<viewerVars, shellVars, isFitMode, containerFit,
                       effectDeps, pageLoaded>>

\* renderPage / renderSinglePage after its await of getPage: size the
\* canvas (which clears it), start the raster, store the task
RenderPageContinues(t) ==
    LET rec == threads[t]
        slot == SlotOf(rec.page)
    IN  /\ canvas' = [canvas EXCEPT ![slot].sizedBy = t, ![slot].drawnBy = 0]
        /\ running' = running \cup {<<t, slot>>}
        /\ renderTaskRef' = [renderTaskRef EXCEPT ![slot] = Some(<<t, slot>>)]
        /\ threads' = [threads EXCEPT ![t].pc = "raster"]
        /\ micro' = Tail(micro)
        /\ UNCHANGED <<viewerVars, shellVars, zoomVars, containerFit,
                       effectDeps, renderedScale, consoleErrors,
                       pageLoaded, waiters>>

\* after the await of task.promise, settled or cancelled: renderPage
\* returns; renderAllPages goes on to the next page
RasterAwaited(t) ==
    LET rec == threads[t]
    IN  IF variant = "scroll" /\ rec.page < rec.cPages
        THEN /\ CallRenderPage(t, rec, rec.page + 1,
                               [micro |-> Tail(micro), waiters |-> waiters])
             /\ UNCHANGED <<viewerVars, shellVars, zoomVars, containerFit,
                            effectDeps, renderedScale, pageLoaded>>
        ELSE /\ threads' = [threads EXCEPT ![t] = FinishedThread("render")]
             /\ micro' = Tail(micro)
             /\ UNCHANGED <<viewerVars, shellVars, zoomVars, containerFit,
                            effectDeps, renderedScale, consoleErrors,
                            pageLoaded, waiters, running,
                            renderTaskRef, canvas>>

\* the ResizeObserver callback of the scrolling viewer after its await of
\* getPage(1)
ResizeContinues(t) ==
    LET fit == containerFit[threads[t].cMode]
    IN  /\ scale' = fit
        /\ displayScale' = fit
        /\ threads' = [threads EXCEPT ![t] = FinishedThread("resize")]
        /\ micro' = Tail(micro)
        /\ UNCHANGED <<viewerVars, shellVars, isFitMode, containerFit,
                       effectDeps, renderedScale, consoleErrors,
                       pageLoaded, waiters, running,
                       renderTaskRef, canvas>>

\* the microtask at the head of the queue runs
MicroStep ==
    /\ micro # <<>>
    /\ LET t == Head(micro)
       IN  CASE threads[t].kind = "resize" -> ResizeContinues(t)
             [] threads[t].kind = "render" /\ threads[t].pc = "getPage1"
                    -> DoRenderContinues(t)
             [] threads[t].kind = "render" /\ threads[t].pc = "getPage2"
                    -> RenderPageContinues(t)
             [] threads[t].kind = "render" /\ threads[t].pc = "raster"
                    -> RasterAwaited(t)

\* the engine delivers page p: the getPage promise resolves and the threads
\* awaiting it continue, in the order they began to wait
PageArrives(p) ==
    /\ micro = <<>>
    /\ p \notin pageLoaded
    /\ \E i \in 1..Len(waiters) : threads[waiters[i]].page = p
    /\ pageLoaded' = pageLoaded \cup {p}
    /\ micro' = SelectSeq(waiters, LAMBDA t : threads[t].page = p)
    /\ waiters' = SelectSeq(waiters, LAMBDA t : threads[t].page # p)
    /\ UNCHANGED <<viewerVars, shellVars, zoomVars, containerFit, effectDeps,
                   renderedScale, consoleErrors, threads, running,
                   renderTaskRef, canvas>>

\* the raster task of thread t on a slot settles: drawn (ok) or failed
RasterDone(task, ok) ==
    /\ micro = <<>>
    /\ task \in running
    /\ running' = running \ {task}
    /\ canvas' = (IF ok THEN [canvas EXCEPT ![task[2]].drawnBy = task[1]]
                        ELSE canvas)
    /\ micro' = <<task[1]>>
    /\ consoleErrors' = (IF ~ok /\ Logged("Error")
                         THEN consoleErrors \cup {"Error"}
                         ELSE consoleErrors)
    /\ UNCHANGED <<viewerVars, shellVars, zoomVars, containerFit, effectDeps,
                   renderedScale, pageLoaded, threads, waiters, renderTaskRef>>

\* a ResizeObserver that stays connected outside fit mode
Resize_AlwaysObserving(f) ==
    /\ mounted
    /\ f # containerFit[scrollMode]
    /\ containerFit' = [containerFit EXCEPT ![scrollMode] = f]
    /\ IF ~Ready \/ pageLoaded = {}
          THEN UNCHANGED <<scale, displayScale>>
          ELSE scale' = f /\ displayScale' = f
    /\ UNCHANGED <<viewerVars, shellVars, isFitMode, threads, micro, waiters,
                   effectDeps, renderedScale, consoleErrors, pageLoaded,
                   running, renderTaskRef, canvas>>

\* the container gets another size.  In fit mode the ResizeObserver is
\* connected: the single-page viewer recomputes the scale at once from the
\* page it holds, the scrolling viewer after an await of getPage(1).
Resize(f) ==
    /\ mounted
    /\ f # containerFit[scrollMode]
    /\ containerFit' = [containerFit EXCEPT ![scrollMode] = f]
    /\ IF ~isFitMode \/ ~Ready
          THEN UNCHANGED <<zoomVars, threads, micro, waiters>>
          ELSE IF variant = "single"
                  THEN /\ IF pageLoaded = {}
                             THEN UNCHANGED <<scale, displayScale>>
                             ELSE scale' = f /\ displayScale' = f
                       /\ UNCHANGED <<isFitMode, threads, micro, waiters>>
                  ELSE LET t == Len(threads) + 1
                           q == AfterAwaitPage([micro |-> micro,
                                                waiters |-> waiters], t, 1)
                       IN  /\ threads' = Append(threads,
                                  [kind |-> "resize", pc |-> "getPage1",
                                   page |-> 1, cScale |-> scale,
                                   cFit |-> isFitMode, cMode |-> scrollMode,
                                   cPages |-> numPages])
                           /\ micro' = q.micro
                           /\ waiters' = q.waiters
                           /\ UNCHANGED zoomVars
    /\ UNCHANGED <<viewerVars, shellVars, effectDeps, renderedScale,
                   consoleErrors, pageLoaded, running,
                   renderTaskRef, canvas>>

\* ------------------------------------------------ the viewer's rendering
\* One viewer from the moment load() awaits getDocument, the menu of the
\* scrolling viewer opened meanwhile; user events are taken while fewer
\* than MaxThreads async activations have started.
InitRenderSpec ==
    /\ ShellAtRest
    /\ variant \in {"single", "scroll"}
    /\ mounted = TRUE
    /\ cancelled = FALSE
    /\ pdfjsLib = TRUE
    /\ attempts = 0
    /\ loadPc = "parse"
    /\ numPages = 0
    /\ currentPage = 1
    /\ pageInputValue = <<"1">>
    /\ isLoading = TRUE
    /\ error = Null
    /\ scrollMode = "vertical"
    /\ isMenuOpen = (variant = "scroll")
    /\ scrollOffset = 0
    /\ pageExtent = 1
    /\ fileProp = 1
    /\ objectUrlRef = Some(1)
    /\ blobUrls = {1}
    /\ superseded = {}
    /\ containerFit \in [ScrollModes -> FitScales]
    /\ InitRender

UserEvent == Quiet /\ Len(threads) < MaxThreads

NextRender ==
    \/ (Quiet /\ \E ok \in BOOLEAN, n \in RenderPageCounts : ParseDone(ok, n))
    \/ RenderEffect
    \/ MicroStep
    \/ \E p \in 1..numPages : PageArrives(p)
    \/ \E task \in running, ok \in BOOLEAN : RasterDone(task, ok)
    \/ (UserEvent /\ zoomIn)
    \/ (UserEvent /\ zoomOut)
    \/ (UserEvent /\ fitWidth)
    \/ (UserEvent /\ \E f \in FitScales : Resize(f))
    \/ (UserEvent /\ \E delta \in {0 - 1, 1} : navigate(delta))
    \/ (UserEvent /\ \E s \in ScrollOffsets : syncCurrentPageFromScroll(s))
    \/ (UserEvent /\ toggleScrollMode)

SpecRender == InitRenderSpec /\ [][NextRender]_vars

\* ------------------------------------------------------- computeFitScale
\* container.clientWidth / clientHeight in CSS pixels: none, a phone, a
\* wide screen
ClientExtents == {0, 700, 4000}

\* width / height of page.getViewport({scale: 1}): an A4 page and the
\* largest page a PDF can have
PagePoints == {595, 14400}

Containers == [clientWidth : ClientExtents, clientHeight : ClientExtents]
Viewports == [width : PagePoints, height : PagePoints]

\* the space the page is fitted into over the page's size, in thousandths
FitRatio(v, mode, container, viewport) ==
    IF v = "single"
    THEN (1000 * (container.clientWidth - 32)) \div viewport.width
    ELSE IF mode = "horizontal"
         THEN (1000 * Max(container.clientHeight - 48, 200))
                  \div viewport.height
         ELSE (1000 * Max(container.clientWidth - 56, 200))
                  \div viewport.width

\* computeFitScale returning the ratio as it is
computeFitScale_Unclamped(v, mode, container, viewport) ==
    FitRatio(v, mode, container, viewport)

\* computeFitScale(page) of viewer v with a container, in scroll mode `mode`
computeFitScale(v, mode, container, viewport) ==
    Max(MIN_SCALE, Min(MAX_SCALE, FitRatio(v, mode, container, viewport)))

\* ------------------------------------------------- fitting and zooming
\* One viewer of a one-page document from the await of getDocument, in a
\* container and with a page of any of the sizes above, resized to any of
\* them: the fit scale is what computeFitScale makes of the sizes.
InitFitSpec ==
    /\ ShellAtRest
    /\ variant \in {"single", "scroll"}
    /\ mounted = TRUE
    /\ cancelled = FALSE
    /\ pdfjsLib = TRUE
    /\ attempts = 0
    /\ loadPc = "parse"
    /\ numPages = 0
    /\ currentPage = 1
    /\ pageInputValue = <<"1">>
    /\ isLoading = TRUE
    /\ error = Null
    /\ scrollMode = "vertical"
    /\ isMenuOpen = (variant = "scroll")
    /\ scrollOffset = 0
    /\ pageExtent = 1
    /\ fileProp = 1
    /\ objectUrlRef = Some(1)
    /\ blobUrls = {1}
    /\ superseded = {}
    /\ \E container \in Containers, viewport \in Viewports :
          containerFit = [m \in ScrollModes |->
                            computeFitScale(variant, m, container, viewport)]
    /\ InitRender

NextFit ==
    \/ (Quiet /\ ParseDone(TRUE, 1))
    \/ RenderEffect
    \/ MicroStep
    \/ PageArrives(1)
    \/ \E task \in running : RasterDone(task, TRUE)
    \/ (UserEvent /\ zoomIn)
    \/ (UserEvent /\ zoomOut)
    \/ (UserEvent /\ fitWidth)
    \/ (UserEvent /\ \E container \in Containers, viewport \in Viewports :
            Resize(computeFitScale(variant, scrollMode, container, viewport)))
    \/ (UserEvent /\ toggleScrollMode)

SpecFit == InitFitSpec /\ [][NextFit]_vars

\* ------------------------------------------------ fit mode left to settle
\* One viewer in fit mode whose container keeps its size: the document
\* loads and renders, the user scrolls, presses the fit button and opens
\* or closes the menu, none of which leaves fit mode.
NextSettle ==
    \/ (Quiet /\ \E ok \in BOOLEAN, n \in RenderPageCounts : ParseDone(ok, n))
    \/ RenderEffect
    \/ MicroStep
    \/ \E p \in 1..numPages : PageArrives(p)
    \/ \E task \in running, ok \in BOOLEAN : RasterDone(task, ok)
    \/ (Quiet /\ fitWidth)
    \/ (Quiet /\ \E s \in ScrollOffsets : syncCurrentPageFromScroll(s))
    \/ (Quiet /\ toggleMenu)

SpecSettle == InitFitSpec /\ [][NextSettle]_vars

\* ----------------------------------------------- a session to its close
\* The viewer from the await of getDocument to its unmount: what SpecRender
\* has, the menu button of the scrolling viewer and the way back to the
\* library.
NextSession ==
    \/ (Quiet /\ \E ok \in BOOLEAN, n \in RenderPageCounts : ParseDone(ok, n))
    \/ RenderEffect
    \/ MicroStep
    \/ \E p \in 1..numPages : PageArrives(p)
    \/ \E task \in running, ok \in BOOLEAN : RasterDone(task, ok)
    \/ (UserEvent /\ zoomIn)
    \/ (UserEvent /\ zoomOut)
    \/ (UserEvent /\ fitWidth)
    \/ (UserEvent /\ \E f \in FitScales : Resize(f))
    \/ (UserEvent /\ \E delta \in {0 - 1, 1} : navigate(delta))
    \/ (UserEvent /\ \E s \in ScrollOffsets : syncCurrentPageFromScroll(s))
    \/ (UserEvent /\ toggleScrollMode)
    \/ (Quiet /\ toggleMenu)
    \/ (Quiet /\ Close)

SpecSession == InitRenderSpec /\ [][NextSession]_vars

\* ------------------------------------------- scrolling while pages render
\* The scrolling viewer alone, on documents of up to MaxPages pages: its
\* container is scrolled while the render effect's pass runs and after it.
InitScrollSpec == InitRenderSpec /\ variant = "scroll"

NextScroll ==
    \/ (Quiet /\ \E ok \in BOOLEAN, n \in 1..MaxPages : ParseDone(ok, n))
    \/ RenderEffect
    \/ MicroStep
    \/ \E p \in 1..numPages : PageArrives(p)
    \/ \E task \in running, ok \in BOOLEAN : RasterDone(task, ok)
    \/ (UserEvent /\ \E s \in ScrollOffsets : syncCurrentPageFromScroll(s))

SpecScroll == InitScrollSpec /\ [][NextScroll]_vars

\* ======================================================================
\* Properties of the shell and the bookshelf (checked under Spec)
\* ======================================================================
BookIds(bks) == {bks[p].id : p \in 1..Len(bks)}

\* invocation k of handleAdd awaits the thumbnail or the upload of its
\* current file
Pending(k) == adds[k].pc \in {"thumbnail", "storage", "db"}

\* the step in which uploadPdf returns to invocation k
UploadReturns(k) ==
    /\ k \in 1..Len(adds)
    /\ adds[k].pc \in {"storage", "db"}
    /\ Len(adds'[k].results) = Len(adds[k].results) + 1

ReturnedStored(k) == adds'[k].results[Len(adds'[k].results)]

\* C1: for every file accepted by handleAdd, while its thumbnail and its
\* upload have not resolved, a placeholder entry for that file (its
\* temporary id, its File, an empty storagePath) is in the books list.
C1_PlaceholderBeforeUploadResolves ==
    \A k \in 1..Len(adds) :
        Pending(k) =>
            \E p \in 1..Len(books) :
                /\ books[p].id = adds[k].tempId
                /\ books[p].file = Some(adds[k].files[adds[k].i])
                /\ books[p].storagePath = Null

\* C1 witness: an upload is in flight (its storage part done, the insert
\* awaited) and its placeholder is listed
C1_Witness ==
    \E k \in 1..Len(adds) :
        /\ adds[k].pc = "db"
        /\ adds[k].tempId \in BookIds(books)

\* C2 (as claimed): no file of an add call waits for another file's
\* thumbnail or upload: while the call awaits the thumbnail or the upload
\* of one file, every later file of the call already has its placeholder.
C2_FilesProceedIndependently ==
    \A k \in 1..Len(adds) :
        Pending(k) =>
            \A j \in 1..Len(adds[k].files) :
                j > adds[k].i => TempId(k, j) \in BookIds(books)

\* C3: when uploadPdf returns null for a file, the list afterwards holds no
\* entry with the file's temporary id, and the entries that were in the
\* list keep their content and their relative order (anything new comes
\* after them).
C3_FailedUploadRollsBack ==
    [][\A k \in 1..Len(adds) :
          (UploadReturns(k) /\ ReturnedStored(k) = Null) =>
              LET t == adds[k].tempId
                  kept == SelectSeq(books, LAMBDA b : b.id # t)
              IN /\ t \notin BookIds(books')
                 /\ Len(books') >= Len(kept)
                 /\ SubSeq(books', 1, Len(kept)) = kept
                 /\ \A p \in (Len(kept) + 1)..Len(books') :
                        books'[p].id \notin BookIds(books)]_vars

\* C3 witness: an upload has failed, its placeholder is gone and another
\* placeholder and a persisted entry are still listed
C3_Witness ==
    \E k \in 1..Len(adds) :
        /\ Len(adds[k].results) >= 1
        /\ adds[k].results[1] = Null
        /\ TempId(k, 1) \notin BookIds(books)
        /\ \E p, q \in 1..Len(books) :
              /\ isUploading(books[p])
              /\ ~isUploading(books[q])

\* C4: when uploadPdf returns a row for a file, the placeholder with the
\* file's temporary id is replaced, at its position, by the persisted entry
\* (the row's id, a non-empty storagePath, the same File); every other
\* position keeps its entry, and the replacement does not change the length
\* (the only other change is the next file's placeholder, appended).
C4_SuccessReplacesInPlace ==
    [][\A k \in 1..Len(adds) :
          (UploadReturns(k) /\ ReturnedStored(k) # Null) =>
              LET t == adds[k].tempId
                  stored == ReturnedStored(k)[1]
              IN /\ \E p \in 1..Len(books) :
                        /\ books[p].id = t
                        /\ books'[p].id = stored.id
                        /\ books'[p].id # t
                        /\ books'[p].storagePath # Null
                        /\ books'[p].storagePath = stored.storage_path
                        /\ books'[p].file = books[p].file
                        /\ \A q \in 1..Len(books) :
                              q # p => books'[q] = books[q]
                 /\ t \notin BookIds(books')
                 /\ IF adds'[k].pc = "done"
                    THEN Len(books') = Len(books)
                    ELSE /\ Len(books') = Len(books) + 1
                         /\ books'[Len(books')].id = adds'[k].tempId]_vars

\* C4 witness: a persisted entry of this session stands before a
\* placeholder that was inserted earlier than the persisted entry's own
\* placeholder was replaced (two invocations, the first file of the second
\* reconciled first)
C4_Witness ==
    \E p, q \in 1..Len(books) :
        /\ p < q
        /\ isUploading(books[p])
        /\ books[q].id = UploadId(2, 1)
        /\ books[q].storagePath # Null

\* C5: an add call of two files whose first upload fails and whose second
\* succeeds ends with a list that holds, for the two files, exactly one
\* entry: the second file's persisted entry, with its storagePath set.
C5_FirstFailsSecondSucceeds ==
    [][\A k \in 1..Len(adds) :
          ( /\ adds[k].pc # "done"
            /\ adds'[k].pc = "done"
            /\ Len(adds'[k].files) = 2
            /\ adds'[k].results[1] = Null
            /\ adds'[k].results[2] # Null ) =>
              LET stored == adds'[k].results[2][1]
                  mine == {p \in 1..Len(books') :
                              books'[p].id \in {TempId(k, 1), TempId(k, 2),
                                                UploadId(k, 1), UploadId(k, 2)}}
              IN /\ Cardinality(mine) = 1
                 /\ \A p \in mine :
                       /\ books'[p].id = stored.id
                       /\ books'[p].file = Some(adds'[k].files[2])
                       /\ books'[p].name = adds'[k].files[2].name
                       /\ books'[p].storagePath # Null]_vars

\* C5 witness: such a call has ended and the second file's entry is listed
C5_Witness ==
    \E k \in 1..Len(adds) :
        /\ adds[k].pc = "done"
        /\ Len(adds[k].files) = 2
        /\ adds[k].results[1] = Null
        /\ adds[k].results[2] # Null
        /\ UploadId(k, 2) \in BookIds(books)

\* C6: handleFiles drops every file whose declared type is not exactly
\* "application/pdf": a selection with no such file changes neither the
\* list nor the add calls nor the store; otherwise exactly one handleAdd
\* call starts, with the selection's PDF files in their order.
C6_OnlyPdfsReachOnAdd ==
    [][\A files \in Selections :
          handleFiles(files) =>
              LET pdfs == SelectSeq(files, LAMBDA f : f.type = "application/pdf")
              IN IF pdfs = <<>>
                 THEN /\ books' = books
                      /\ adds' = adds
                      /\ bucket' = bucket
                      /\ table' = table
                 ELSE /\ Len(adds') = Len(adds) + 1
                      /\ adds'[Len(adds')].files = pdfs
                      /\ Len(books') = Len(books) + 1]_vars

\* C6 witness: two files were selected, one of them reached handleAdd
C6_Witness ==
    /\ nPicked = 2
    /\ Len(adds) = 1
    /\ Len(adds[1].files) = 1

\* C7 (as claimed): the shell never shows the "Dokument wird geoeffnet"
\* screen, which has no control at all, without a download in flight that
\* will end it: a failed download leaves a way back to the bookshelf.
C7_OpeningScreenEnds ==
    View = "opening" => opening # Null

\* C8: opening an entry that has a local File issues no download and shows
\* the viewer at once, and no storage path is ever downloaded twice in a
\* session.
C8_LocalOpenNeedsNoDownload ==
    [][ /\ (activeEntry = Null /\ activeEntry' # Null) =>
             IF activeEntry'[1].file # Null
             THEN /\ downloadLog' = downloadLog
                  /\ opening' = Null
                  /\ openFile' = activeEntry'[1].file
             ELSE downloadLog' = Append(downloadLog, activeEntry'[1].storagePath)
        /\ \A i, j \in 1..Len(downloadLog') :
              i # j => downloadLog'[i] # downloadLog'[j] ]_vars

\* C8 witness: the cloud entry is open for the second time (the entry handed
\* to handleOpen carries the cached File) after one download
C8_Witness ==
    /\ View = "viewer"
    /\ activeEntry[1].id = InitialRow.id
    /\ activeEntry[1].file # Null
    /\ Len(downloadLog) = 1


\* ======================================================================
\* Properties of the viewer's paging (checked under SpecViewer)
\* ======================================================================

\* the bound of [1, n] nearest to page p, p itself when it is inside
NearestBound(p, n) == IF p < 1 THEN 1 ELSE IF p > n THEN n ELSE p

\* C9: once the viewer is Ready, currentPage lies within [1, numPages],
\* whatever sequence of navigate calls, page-input commits and scroll-sync
\* updates has run.
C9_CurrentPageWithinDocument ==
    Ready => currentPage \in 1..numPages

\* C9 happens: a scrolling viewer of a several-page document stands at its
\* last page with the container scrolled to the end.
C9_Witness ==
    /\ Ready /\ variant = "scroll"
    /\ numPages = MaxPages
    /\ currentPage = numPages
    /\ scrollOffset = MaxScrollOffset(numPages, pageExtent)
    /\ scrollOffset > 0

\* C10 as stated: every request for a page n outside [1, numPages], be it
\* a navigate call aiming at n or a commit of the page field holding n,
\* sets currentPage to the nearest bound.
C10_EveryRequestClamps ==
    [][ /\ \A delta \in NavigateDeltas :
              (navigate(delta) /\ currentPage + delta \notin 1..numPages)
                  => currentPage' = NearestBound(currentPage + delta, numPages)
        /\ (commitPageInput /\ ~parseInt(pageInputValue).isNaN
                            /\ parseInt(pageInputValue).value \notin 1..numPages)
                  => currentPage' = NearestBound(parseInt(pageInputValue).value, numPages)
      ]_vars

\* C10, amended: navigate(delta) sets currentPage to the bound nearest to
\* currentPage + delta when that page is outside [1, numPages] (on the
\* document of ScenarioPages = 10 pages, aiming at page 25 gives page 10
\* and aiming at page 0 gives page 1); a commit of the page field with a number outside
\* [1, numPages] does not clamp, it leaves currentPage as it is.
C10_NavigateClampsCommitRejects ==
    [][ /\ \A delta \in NavigateDeltas :
              navigate(delta)
                  => /\ currentPage' = NearestBound(currentPage + delta, numPages)
                     /\ (numPages = ScenarioPages /\ currentPage + delta = 25)
                            => currentPage' = ScenarioPages
                     /\ (numPages = ScenarioPages /\ currentPage + delta = 0)
                            => currentPage' = 1
        /\ (commitPageInput /\ ~parseInt(pageInputValue).isNaN
                            /\ parseInt(pageInputValue).value \notin 1..numPages)
                  => currentPage' = currentPage
      ]_vars

\* C10 happens: on the 10-page document the viewer stands at page 10, and
\* a navigate call aiming at page 25 is possible and stays there.
C10_Witness ==
    /\ Ready /\ ControlsShown
    /\ numPages = ScenarioPages
    /\ currentPage = ScenarioPages
    /\ (25 - currentPage) \in NavigateDeltas
    /\ NextPage(currentPage, 25 - currentPage, numPages) = ScenarioPages

\* a text that is no number by any reading: it holds a character that is
\* neither a digit nor a sign, a space or a decimal point
NonNumeric(text) ==
    \E i \in 1..Len(text) : ~IsDigit(text[i]) /\ text[i] \notin {" ", "-", "+", "."}

\* C11 (as claimed): a commit of the page input whose text is non-numeric,
\* or is a number outside [1, numPages], leaves currentPage unchanged and
\* resets the text to the current page number.
C11_InvalidCommitRejected ==
    [][ (commitPageInput
           /\ \/ NonNumeric(pageInputValue)
              \/ parseInt(pageInputValue).isNaN
              \/ parseInt(pageInputValue).value \notin 1..numPages)
          => /\ currentPage' = currentPage
             /\ pageInputValue' = String(currentPage)
      ]_vars

\* ======================================================================
\* Properties of the zoom buttons (checked under SpecZoom)
\* ======================================================================

\* C12 as stated: from every scale in [MIN_SCALE, MAX_SCALE], the fit
\* scales included, zoomIn leaves fit mode and a zoomOut that follows it
\* returns the scale to the value zoomIn started from.
C12_ZoomInThenOutReturns ==
    [][ zoomIn => /\ isFitMode' = FALSE
                  /\ \A r \in ZoomOutResults(scale') : r = scale
      ]_vars

\* C12, amended: zoomIn leaves fit mode; where a whole step fits below
\* MAX_SCALE the zoomOut that follows returns to the starting scale up to
\* the rounding to hundredths (exactly, from a scale of whole hundredths);
\* where zoomIn was clamped to MAX_SCALE the zoomOut lands one step below
\* MAX_SCALE.
C12_ZoomInThenOutReturnsBelowMax ==
    [][ zoomIn => /\ isFitMode' = FALSE
                  /\ \A r \in ZoomOutResults(scale') :
                        IF scale + SCALE_STEP <= MAX_SCALE
                        THEN /\ Abs(r - scale) <= 5
                             /\ (scale % 10 = 0 => r = scale)
                        ELSE r = MAX_SCALE - SCALE_STEP
      ]_vars

\* a zoomIn and a zoomOut have acted on a fit scale that is no multiple of
\* the step: only from it do the clicks reach a scale within rounding of it
C12_Witness ==
    /\ ~isFitMode
    /\ scale # 835
    /\ Abs(scale - 835) <= 5
    /\ scale % SCALE_STEP # 0

\* ======================================================================
\* Properties of the rendering (checked under SpecRender)
\* ======================================================================

\* the raster operations outstanding on a slot: started, neither completed
\* nor cancelled
Outstanding(slot) == {task \in running : task[2] = slot}

\* C13: once the latest render request of a page slot has sized the
\* canvas, no earlier request of that slot sizes the canvas or draws on it:
\* until a newer request is made, the canvas keeps the size the latest
\* request gave it and the only raster applied to it is the latest one's.
C13_SupersededRequestNeverApplied ==
    [][ \A slot \in Slots :
          (/\ canvas[slot].requestedBy # 0
           /\ canvas[slot].sizedBy = canvas[slot].requestedBy
           /\ canvas'[slot].requestedBy = canvas[slot].requestedBy)
          => /\ canvas'[slot].sizedBy = canvas[slot].sizedBy
             /\ canvas'[slot].drawnBy \in {canvas[slot].drawnBy,
                                           canvas[slot].requestedBy}
      ]_vars

\* C14: at every moment at most one raster operation is outstanding per
\* page slot.
C14_OneOutstandingRasterPerSlot ==
    \A slot \in Slots : Cardinality(Outstanding(slot)) <= 1

\* a step of the container's resize handling: the ResizeObserver callback
\* is called, or the callback of the scrolling viewer continues after its
\* await of getPage(1)
ResizeCallbackContinues ==
    /\ micro # <<>>
    /\ threads[Head(micro)].kind = "resize"
    /\ MicroStep

ResizeStep == (\E f \in FitScales : Resize(f)) \/ ResizeCallbackContinues

C16_ScrollEventRendersNothing ==
    [][ (\E s \in ScrollOffsets : syncCurrentPageFromScroll(s))
        => /\ UNCHANGED <<scale, displayScale, isFitMode, scrollMode>>
           /\ UNCHANGED <<numPages, isLoading, error, isMenuOpen>>
           /\ UNCHANGED <<threads, waiters, micro, running, renderTaskRef,
                          canvas>>
           /\ EffectDue' = EffectDue
      ]_vars

\* three rendered pages, the container scrolled so that page 2 is centred:
\* currentPage is 2 and the only render passes there have ever been are
\* the two of the load in fit mode (the first sets the fit scale, the
\* second renders at it), both finished
C16_Witness ==
    /\ variant = "scroll"
    /\ numPages = 3
    /\ \A slot \in 1..3 : canvas[slot].drawnBy = 2
    /\ Distance2(2, scrollOffset, pageExtent) <= 1
    /\ currentPage = 2
    /\ pageInputValue = <<"2">>
    /\ threads = <<FinishedThread("render"), FinishedThread("render")>>
    /\ ~EffectDue

\* ======================================================================
\* Properties of the thumbnail generator (checked under SpecThumbnail)
\* ======================================================================

\* something goes wrong inside generateThumbnail on the file
ThumbnailFails(file) ==
    LET env == thumbnailEnv[file.name]
    IN  \/ env.engineAfter > ThumbnailAttempts
        \/ ~env.parses \/ ~env.hasPage \/ ~env.hasContext \/ ~env.renders

\* C17: generateThumbnail never raises: whenever handleAdd's await of it
\* settles, handleAdd goes on to the upload of that file, with no thumbnail
\* if anything failed inside the generator and with the data URL otherwise.
C17_ThumbnailNeverRaises ==
    [][ \A k \in 1..Len(adds) :
          (adds[k].pc = "thumbnail" /\ adds'[k] # adds[k])
          => /\ adds'[k].pc = "storage"
             /\ adds'[k].i = adds[k].i
             /\ adds'[k].thumbnail =
                  (IF ThumbnailFails(adds[k].files[adds[k].i])
                   THEN Null ELSE Some("data:image/jpeg"))
      ]_vars

\* a file whose thumbnail could not be made because the engine threw is
\* on the shelf as a persisted entry without a thumbnail
C17_Witness ==
    \E p \in 1..Len(books) :
       /\ ~isUploading(books[p])
       /\ books[p].thumbnail = Null
       /\ ThumbnailBody(thumbnailEnv[books[p].name]).raised

\* ======================================================================
\* Properties of the load (checked under SpecViewerFair)
\* ======================================================================

\* C18: the load waits for the engine at most MaxAttempts times.  A wait
\* that ends with the engine there goes on to parse the document and
\* reports no failure; a wait that ends without it is followed by another
\* one while fewer than MaxAttempts have ended, and the MaxAttempts-th
\* leaves a mounted viewer in the Failed state.  The loop always ends.
C18_BoundedEngineWait ==
    /\ [][ PollTick =>
             /\ attempts + 1 <= MaxAttempts
             /\ pdfjsLib => (loadPc' = "parse" /\ error' = Null)
             /\ (~pdfjsLib /\ attempts + 1 < MaxAttempts)
                  => (loadPc' = "wait" /\ attempts' = attempts + 1
                      /\ error' = error)
             /\ (~pdfjsLib /\ attempts + 1 = MaxAttempts /\ mounted)
                  => (loadPc' = "done" /\ error' # Null /\ ~isLoading')
         ]_vars
    /\ (loadPc = "wait") ~> (loadPc # "wait")

\* a mounted viewer without the engine, Failed after the last wait
C18_Witness ==
    /\ mounted
    /\ ~pdfjsLib
    /\ loadPc = "done"
    /\ ~isLoading
    /\ error = Some("PDF-Bibliothek konnte nicht geladen werden.")

\* ======================================================================
\* Properties of the shelf over time (checked under SpecFair)
\* ======================================================================

\* the temporary ids handleAdd can have given out
TempIds == {TempId(k, i) : k \in 1..MaxFiles, i \in 1..MaxFiles}

AllAddsSettled == \A k \in 1..Len(adds) : adds[k].pc = "done"

\* C19: once every add has settled, no entry with a temporary id or an
\* empty storagePath is in the list; and every placeholder that enters the
\* list leaves it again (replaced by the persisted entry or removed).
C19_PlaceholdersSettle ==
    /\ [](AllAddsSettled =>
             \A p \in 1..Len(books) :
                /\ books[p].id \notin TempIds
                /\ books[p].storagePath # Null)
    /\ \A t \in TempIds : (t \in BookIds(books)) ~> (t \notin BookIds(books))

\* two adds have settled, one upload persisted and one failed: the shelf
\* holds the persisted entry of the one and nothing of the other
C19_Witness ==
    /\ Len(adds) = 2
    /\ AllAddsSettled
    /\ adds[1].results[1] = Null
    /\ adds[2].results[1] # Null
    /\ UploadId(2, 1) \in BookIds(books)
    /\ BookIds(books) \cap TempIds = {}

\* ======================================================================
\* Properties of the placeholders (checked under Spec)
\* ======================================================================

\* C20: an entry that is opened has a non-empty storagePath (so it never
\* lacks both a File and a storage path), and so has an entry that is
\* removed; a placeholder leaves the list only when its own upload returns.
C20_PlaceholderNeitherOpenedNorRemoved ==
    [][ /\ \A p \in 1..Len(books) :
              (handleOpen(p) \/ handleRemove(p))
              => /\ books[p].storagePath # Null
                 /\ books[p].id \notin TempIds
        /\ activeEntry' # Null =>
              /\ activeEntry'[1].storagePath # Null
              /\ activeEntry'[1].id \notin TempIds
        /\ \A t \in TempIds :
              (t \in BookIds(books) /\ t \notin BookIds(books'))
              => \E k \in 1..Len(adds) : UploadReturns(k) /\ adds[k].tempId = t
      ]_vars

\* a persisted entry has been removed and another one opened while a
\* placeholder was, and still is, on the shelf
C20_Witness ==
    /\ nRemoves = 1
    /\ activeEntry # Null
    /\ \E p \in 1..Len(books) :
          /\ books[p].storagePath = Null
          /\ books[p].file # Null
          /\ books[p].id \in TempIds

\* ======================================================================
\* Properties of remove (checked under Spec)
\* ======================================================================

\* C21: handleRemove takes the entry with the clicked id out of the list
\* in its own step, before the store has done anything; it issues one
\* deletePdf for the entry's id and storage path exactly when the entry has
\* a storagePath; deletePdf goes on from the blob to the row whatever the
\* blob's removal gave, and no outcome of it changes the list.
C21_RemoveIsImmediate ==
    [][ /\ \A p \in 1..Len(books) :
              handleRemove(p)
              => /\ books' = SelectSeq(books, LAMBDA b : b.id # books[p].id)
                 /\ bucket' = bucket /\ table' = table
                 /\ IF books[p].storagePath # Null
                    THEN /\ Cardinality(deletes' \ deletes) = 1
                         /\ \A d \in deletes' \ deletes :
                               /\ d.id = books[p].id
                               /\ d.storagePath = books[p].storagePath
                               /\ d.pc = "storage"
                         /\ deletes \subseteq deletes'
                    ELSE deletes' = deletes
        /\ \A d \in deletes, ok \in BOOLEAN :
              DeleteStorageDone(d, ok)
              => /\ books' = books
                 /\ [d EXCEPT !.pc = "row"] \in deletes'
        /\ \A d \in deletes, ok \in BOOLEAN :
              DeleteRowDone(d, ok) => books' = books
      ]_vars

\* the loaded entry was removed and its delete has settled, the blob gone
\* and the row still in the table: the list stays without the entry
C21_Witness ==
    /\ ~isInitialLoading
    /\ nRemoves = 1
    /\ deletes = {}
    /\ InitialRow.storage_path \notin bucket
    /\ \E i \in 1..Len(table) : table[i].id = InitialRow.id
    /\ InitialRow.id \notin BookIds(books)

\* isLoading and error as the load state the viewer shows
LoadState ==
    IF isLoading THEN "Loading" ELSE IF error # Null THEN "Failed" ELSE "Ready"

\* the load of the file the viewer has now reaches getDocument
CurrentLoadBegins == loadPc # "parse" /\ loadPc' = "parse"

\* C22: for each opened file the load state goes from Loading to Ready or
\* to Failed once.  Within a mount a load state other than Loading changes
\* only by the load of a newly received file beginning, which shows Loading
\* for that file; nothing else leads back to Loading or from Ready to
\* Failed or from Failed to Ready.
C22_LeavesLoadingOncePerFile ==
    [][ (mounted /\ mounted' /\ LoadState # "Loading"
                 /\ LoadState' # LoadState)
        => (CurrentLoadBegins /\ LoadState' = "Loading") ]_vars

\* the viewer shows its error panel
Failed == mounted /\ ~isLoading /\ error # Null

\* C23: Failed is terminal for a viewer session.  In Failed the way back
\* to the library is offered, and every step of a failed session other
\* than the close leaves the load, the document, the page, the zoom, the
\* scroll axis, the render passes, the raster tasks and the canvases as
\* they are: no parse is retried, no render is issued and no navigation
\* or zoom control acts.  (The menu flag of the scrolling viewer and the
\* size of the window may change; neither shows in a failed viewer.)
C23_FailedIsTerminal ==
    /\ [](Failed => ENABLED Close)
    /\ [][ Failed
           => \/ ~mounted'
              \/ /\ Failed'
                 /\ UNCHANGED <<loadPc, attempts, isLoading, error, numPages,
                                currentPage, pageInputValue, scrollMode,
                                scrollOffset, zoomVars, pageLoaded,
                                threads, waiters, micro, running,
                                renderTaskRef, canvas, urlVars>> ]_vars

C23_Witness ==
    /\ Failed
    /\ variant = "scroll"
    /\ effectDeps = Some(RenderDeps)
    /\ ~isMenuOpen
    /\ containerFit["vertical"] # NeutralScale
    /\ threads = <<>>

\* C24: once a new file has replaced the current one, the load of the
\* superseded file applies nothing: none of its steps, the end of a wait of
\* the engine poll included, sets component state, and none creates, stores
\* or revokes a blob URL.
C24_SupersededLoadAppliesNothing ==
    [][ \A s \in superseded :
           (SupersededPollTick(s) \/ SupersededParseDone(s))
           => UNCHANGED <<isLoading, error, numPages, currentPage,
                          pageInputValue, zoomVars, objectUrlRef, blobUrls>>
      ]_vars

\* the viewer is unmounted and no load() activation of it is suspended
ClosedAndSettled ==
    /\ ~mounted
    /\ loadPc \in {"effect", "done"}
    /\ superseded = {}
    /\ micro = <<>>
    /\ waiters = <<>>

\* C25: after the viewer is closed and its pending asynchronous steps have
\* finished, no blob URL it created is left unrevoked and no raster task
\* is in flight, whenever the close happened.
C25_ClosedViewerHoldsNothing ==
    ClosedAndSettled => (blobUrls = {} /\ running = {})

\* the effect has run on the state shown and every render pass and resize
\* callback has returned
NoPassPending ==
    /\ Ready
    /\ ~EffectDue
    /\ micro = <<>>
    /\ waiters = <<>>
    /\ running = {}
    /\ \A t \in 1..Len(threads) : threads[t].pc = "done"

ScrollEventFrame ==
    /\ UNCHANGED <<mounted, numPages, isLoading, error, scrollMode,
                   pageExtent, isMenuOpen>>
    /\ currentPage' # currentPage \/ pageInputValue' = pageInputValue

\* C27: a scroll event in the scrolling viewer sets currentPage to the
\* page whose centre along the scroll axis is nearest to the centre of the
\* container; of pages equally near the lowest page number wins; with no
\* page element registered currentPage stays.  The page field follows a
\* change of currentPage.
C27_ScrollPicksNearestLowestPage ==
    [][ LET s == scrollOffset' IN
           (ScrollEventFrame /\ syncCurrentPageFromScroll(s))
           => IF PageRefs = {}
                 THEN UNCHANGED <<currentPage, pageInputValue>>
                 ELSE /\ currentPage' \in PageRefs
                      /\ \A q \in PageRefs :
                            LET dq == Distance2(q, s, pageExtent)
                                dc == Distance2(currentPage', s, pageExtent)
                            IN  dc <= dq /\ (dc = dq => currentPage' <= q)
                      /\ currentPage' # currentPage
                           => pageInputValue' = String(currentPage')
      ]_vars

\* pages 2 and 3 are equally near the centre of the container, nearer than
\* every other page, and the scroll event that led here made page 2 the
\* current one (navigating to page 2 scrolls elsewhere)
C27_Witness ==
    /\ variant = "scroll" /\ Ready
    /\ numPages >= 3
    /\ currentPage = 2
    /\ pageInputValue = String(2)
    /\ Distance2(2, scrollOffset, pageExtent)
          = Distance2(3, scrollOffset, pageExtent)
    /\ \A q \in PageRefs : Distance2(2, scrollOffset, pageExtent)
                               <= Distance2(q, scrollOffset, pageExtent)
    /\ scrollOffset # scrollToPage(2)

\* thread t is resumed after `await task.promise` in renderSinglePage, with
\* pages of its renderAllPages loop still to come
ResumesBeforeLastPage(t) ==
    /\ micro # <<>> /\ Head(micro) = t
    /\ MicroStep
    /\ variant = "scroll"
    /\ threads[t].kind = "render" /\ threads[t].pc = "raster"
    /\ threads[t].page < threads[t].cPages

\* C28: a raster task that fails or is cancelled is not fatal and stays
\* isolated.  The step in which a task of a mounted viewer leaves the set
\* of running tasks, however it ends, leaves the load state, the error, the
\* document and the page as they are; console.error is called for a failed
\* raster only, never for a cancelled one; and a pass of the scrolling
\* viewer that is resumed after a page's raster, however that ended, issues
\* the render of the next page.
C28_RenderFailureIsIsolated ==
    [][ /\ (mounted' /\ running \ running' # {})
             => UNCHANGED <<isLoading, error, loadPc, numPages, currentPage>>
        /\ consoleErrors' # consoleErrors
             => /\ \E task \in running : RasterDone(task, FALSE)
                /\ consoleErrors' = consoleErrors \cup {"Error"}
        /\ \A t \in 1..Len(threads) :
              ResumesBeforeLastPage(t)
              => /\ threads'[t].pc = "getPage2"
                 /\ threads'[t].page = threads[t].page + 1
                 /\ canvas'[threads[t].page + 1].requestedBy = t
      ]_vars

\* in the scrolling viewer the raster of page 1 by pass t failed (canvas 1
\* sized by t, its task stored and no longer running, nothing drawn, the
\* error logged) and the same pass has drawn page 2; the viewer is Ready
C28_Witness ==
    /\ variant = "scroll" /\ Ready
    /\ numPages = 2
    /\ "Error" \in consoleErrors
    /\ \E t \in 1..Len(threads) :
          /\ canvas[1].sizedBy = t /\ canvas[1].drawnBy = 0
          /\ renderTaskRef[1] = Some(<<t, 1>>)
          /\ <<t, 1>> \notin running
          /\ canvas[2].drawnBy = t

\* C29: scale is within [MIN_SCALE, MAX_SCALE] in every reachable state of
\* a viewer, after any sequence of zoomIn, zoomOut, fit, resize, scroll-axis
\* toggle and document load, for any container size and page size.
C29_ScaleWithinBounds == scale \in MIN_SCALE..MAX_SCALE

\* a scrolling viewer whose page is far wider than the container and far
\* less high: fitted along the vertical axis at MIN_SCALE first, it has
\* been toggled to the horizontal axis and stands fitted at MAX_SCALE
C29_Witness ==
    /\ variant = "scroll"
    /\ NoPassPending
    /\ scrollMode = "horizontal"
    /\ isFitMode
    /\ containerFit["vertical"] = MIN_SCALE
    /\ \E container \in Containers, viewport \in Viewports :
          /\ FitRatio(variant, "horizontal", container, viewport) > MAX_SCALE
          /\ FitRatio(variant, "vertical", container, viewport) < MIN_SCALE
          /\ containerFit = [m \in ScrollModes |->
                computeFitScale(variant, m, container, viewport)]
    /\ scale = MAX_SCALE
    /\ renderedScale = Some(MAX_SCALE)

\* the render effect starts pass t
StartsPass(t) ==
    /\ RenderEffect
    /\ Len(threads') = t
    /\ Len(threads) = t - 1

\* pass t is resumed in doRender after its await of getPage
ResumesInDoRender(t) ==
    /\ micro # <<>> /\ Head(micro) = t
    /\ MicroStep
    /\ threads[t].kind = "render" /\ threads[t].pc = "getPage1"

\* C30: toggling the scroll axis of the scrolling viewer sets fitMode to
\* true from any zoom state, and the next render pass uses the scale
\* computed along the new axis, not the previous manual scale.  The toggle
\* flips the axis, sets fit mode and leaves the render effect due; a pass
\* the effect starts takes the fit mode and the axis of the state it runs
\* on; a fit-mode pass renders at, and sets scale to, the fit scale along
\* its axis; and once no pass is pending a viewer in fit mode stands at the
\* fit scale along its current axis.
C30_ToggleFitsAlongNewAxis ==
    /\ [][ /\ toggleScrollMode
                => /\ isFitMode'
                   /\ scrollMode' # scrollMode
                   /\ EffectDue'
           /\ \A t \in 1..(Len(threads) + 1) :
                 StartsPass(t)
                 => /\ threads'[t].cFit = isFitMode
                    /\ threads'[t].cMode = scrollMode
           /\ \A t \in 1..Len(threads) :
                 (ResumesInDoRender(t) /\ threads[t].cFit)
                 => /\ renderedScale' = Some(containerFit[threads[t].cMode])
                    /\ scale' = containerFit[threads[t].cMode]
         ]_vars
    /\ []((NoPassPending /\ isFitMode /\ renderedScale # Null)
            => /\ scale = containerFit[scrollMode]
               /\ renderedScale = Some(containerFit[scrollMode]))

\* the axis was toggled in a manual zoom state: pass 2, started after a
\* zoom click, is still under way, and pass 3, started after the toggle to
\* the horizontal axis, has called renderAllPages with the fit scale along
\* that axis, which differs from the one along the vertical axis
C30_Witness ==
    /\ variant = "scroll"
    /\ scrollMode = "horizontal"
    /\ isFitMode
    /\ Len(threads) >= 3
    /\ threads[2].kind = "render" /\ threads[2].pc # "done"
    /\ ~threads[2].cFit
    /\ threads[3].kind = "render" /\ threads[3].pc = "getPage2"
    /\ threads[3].cFit /\ threads[3].cMode = "horizontal"
    /\ containerFit["horizontal"] # containerFit["vertical"]
    /\ scale = containerFit["horizontal"]
    /\ renderedScale = Some(containerFit["horizontal"])

\* a render pass that was started in fit mode is resumed in doRender,
\* after its await of getPage
FitPassResumes ==
    /\ micro # <<>>
    /\ threads[Head(micro)].kind = "render"
    /\ threads[Head(micro)].pc = "getPage1"
    /\ threads[Head(micro)].cFit
    /\ MicroStep

\* C31: after zoomIn or zoomOut, scale keeps the user-chosen value until
\* the next zoomIn, zoomOut, fit or axis toggle: a render pass that started
\* while fitMode was true and is resumed in doRender after the zoom, fitMode
\* being false by then, overwrites neither scale nor displayScale.
C31_ZoomSurvivesEarlierFitPass ==
    [][ (~isFitMode /\ FitPassResumes)
            => scale' = scale /\ displayScale' = displayScale ]_vars

\* the scrolling viewer has its back button in the menu panel, which the
\* menu button of the header opens and which is rendered for a loaded
\* document only
MenuOffersBack == mounted /\ variant = "scroll" /\ ~isLoading /\ error = Null

\* C32: in every state of a mounted viewer (Loading, Ready, Failed) a
\* close action that returns to the bookshelf is available to the user:
\* the back button is shown, or the menu that holds it can be opened.
C32_CloseAlwaysAvailable ==
    mounted => (ENABLED Close \/ MenuOffersBack)

\* ======================================================================
\* Properties of the remote library store (checked under Spec)
\* ======================================================================

\* no uploadPdf and no deletePdf call is between its first request and its
\* return
StoreCallsReturned ==
    /\ deletes = {}
    /\ \A k \in 1..Len(adds) : adds[k].pc \notin {"storage", "db"}

\* C33: after any sequence of uploadPdf and deletePdf calls in which each
\* storage or database step may fail independently, the bucket and the
\* pdf_library table are consistent: every blob has exactly one row pointing
\* to it and every row points to an existing blob.
C33_BucketAndTableConsistent ==
    StoreCallsReturned
    => /\ bucket = {table[i].storage_path : i \in 1..Len(table)}
       /\ \A i, j \in 1..Len(table) :
             table[i].storage_path = table[j].storage_path => i = j

\* ======================================================================
\* Properties of the page field (checked under SpecViewer)
\* ======================================================================

\* C34: after every commit of the page input the text the field shows is
\* the decimal form of currentPage, also when the commit accepted a text
\* that parseInt reads leniently.
C34_CommitShowsCurrentPage ==
    [][ commitPageInput => pageInputValue' = String(currentPage') ]_vars

\* ======================================================================
\* Properties of the list over time (checked under Spec)
\* ======================================================================

\* the ids an entry of the list can have: the id of the row the library
\* holds at the start, the temporary ids of handleAdd and the ids uploadPdf
\* gives out
EntryIds ==
    {InitialRow.id}
    \cup {TempId(k, i) : k \in 1..MaxFiles, i \in 1..MaxFiles}
    \cup {UploadId(k, i) : k \in 1..MaxFiles, i \in 1..MaxFiles}

\* C35: an entry removed from the list never reappears in it: once an id
\* that was in the list is no longer in it, no later step - no completion
\* of a thumbnail, an upload, a download or a delete - brings an entry with
\* that id back.
C35_RemovedNeverReappears ==
    \A id \in EntryIds :
        [](id \in BookIds(books)
             => [](id \notin BookIds(books)
                     => [](id \notin BookIds(books))))

\* the entry the library held at the start was removed and its delete has
\* settled with the row still in the table; an add has run to its end, its
\* upload persisted, and the list holds the persisted entry and not the
\* removed one
C35_Witness ==
    /\ nRemoves = 1
    /\ InitialRow.id \notin BookIds(books)
    /\ deletes = {}
    /\ \E i \in 1..Len(table) : table[i].id = InitialRow.id
    /\ Len(adds) = 1 /\ adds[1].pc = "done"
    /\ UploadId(1, 1) \in BookIds(books)

\* the shell as the user has not touched it: nothing added, opened or
\* removed, no store call of the shell's handlers made
Untouched ==
    /\ books = <<>>
    /\ adds = <<>>
    /\ activeEntry = Null /\ openFile = Null /\ opening = Null
    /\ deletes = {}
    /\ downloadLog = <<>>
    /\ nPicked = 0 /\ nRemoves = 0

\* C36: the initial library load, which replaces the whole books list with
\* the stored entries, never discards a placeholder or an entry added by
\* the user: no add, open or remove happens before the initial load has
\* completed.  While the load is pending the shell is untouched; the step
\* that completes it finds the list empty; and it completes once.
C36_InitialLoadDiscardsNothing ==
    /\ [](isInitialLoading => Untouched)
    /\ [][ /\ (isInitialLoading /\ ~isInitialLoading') => books = <<>>
           /\ ~isInitialLoading => ~isInitialLoading' ]_vars

\* the load has brought the stored entry in, and the user has added a file
\* since: its placeholder follows the stored entry
C36_Witness ==
    /\ ~isInitialLoading
    /\ Len(books) = 2
    /\ books[1] = CloudEntry(InitialRow)
    /\ books[2].id = TempId(1, 1)
    /\ adds[1].pc = "thumbnail"

\* ======================================================================
\* Properties of fit mode at rest (checked under SpecSettle)
\* ======================================================================

\* C37: in fit mode with an unchanged container size the render effect
\* reaches a fixed point.  The scale a pass writes is the fit scale of the
\* container; a pass that was started at that scale leaves the effect's
\* dependencies as they are, so it schedules no pass; and the effect starts
\* at most two passes, the first and the one the first's write re-triggers.
C37_FitModeReachesFixedPoint ==
    /\ [][ /\ \A t \in 1..Len(threads) :
                ResumesInDoRender(t)
                => /\ scale' = containerFit[scrollMode]
                   /\ (threads[t].cScale = containerFit[scrollMode]
                          => RenderDeps' = RenderDeps /\ ~EffectDue')
           /\ \A t \in 1..(Len(threads) + 1) :
                StartsPass(t)
                => \/ t = 1 /\ threads'[t].cScale = NeutralScale
                   \/ /\ t = 2
                      /\ threads'[t].cScale = containerFit[scrollMode]
                      /\ containerFit[scrollMode] # NeutralScale
         ]_vars
    /\ [](Cardinality({t \in 1..Len(threads) :
                          threads[t].kind = "render"}) <= 2)

\* the first pass found the fit scale different from the neutral scale and
\* wrote it, the effect ran again, and the second pass has run to its end
\* with nothing left to do
C37_Witness ==
    /\ isFitMode
    /\ containerFit[scrollMode] # NeutralScale
    /\ Len(threads) = 2
    /\ threads[1] = FinishedThread("render")
    /\ threads[2] = FinishedThread("render")
    /\ Quiet /\ running = {} /\ waiters = <<>>
    /\ scale = containerFit[scrollMode]
    /\ renderedScale = Some(scale)

\* ======================================================================
\* Properties of the thumbnail generator (checked under SpecThumbnail)
\* ======================================================================

\* C38: generateThumbnail revokes the blob URL it creates on every path on
\* which it returns, the failure paths included (parse error, getPage or
\* render error, missing 2d context): whenever handleAdd's await of it
\* settles, no blob URL the call created is still live.
C38_ThumbnailUrlRevoked ==
    [][ \A k \in 1..Len(adds) :
          (adds[k].pc = "thumbnail" /\ ThumbnailDone(k))
          => ThumbnailUrlsLeft(adds[k].files[adds[k].i]) = {}
      ]_vars

=============================================================================
